---- MODULE Spec2Model ----
(***************************************************************************)
(* A model of the RAVE video-editing pipeline of                           *)
(* examples/community/pipeline_rave.py: grid packing of frames, the        *)
(* per-step frame shuffle of the latent grids, the ControlNet keep         *)
(* weights, classifier-free guidance and the order of the stages of        *)
(* RAVEPipeline.__call__.                                                  *)
(*                                                                         *)
(* Images and latents are matrices of pixels (a sequence of rows, each a   *)
(* sequence of pixels).  A pixel is <<f, y, x>>: the number f of the       *)
(* original frame it comes from (0 for a blank pixel) and its place        *)
(* inside that frame.  The neural networks and the schedulers are outside  *)
(* the pipeline's code; they are modelled as maps that keep every pixel    *)
(* in its place, so the pixel tells which frame a latent position          *)
(* derives from.  Index tables hold 0-based slot numbers as in the code;   *)
(* TLA+ sequences are 1-based, so the code's table[i] is table[i + 1].     *)
(***************************************************************************)
EXTENDS Integers, Sequences, FiniteSets, TLC

\* ------------------------------------------------------------- bounds
MaxFrames == 6     \* longest video
MaxFullPerm == 4   \* longest video shuffled over several steps without a seed
MaxGrid == 2       \* largest grid_size
MaxSteps == 2      \* most inference steps in the ordering families
MaxKeepSteps == 10 \* most inference steps in the keep-weight family
FracDen == 10      \* the window bounds tried are the multiples of 1/FracDen
MaxNoise == 1      \* the denoiser's estimates tried are -1 .. MaxNoise
MaxSeed == 1       \* the generator seeds tried are 0 .. MaxSeed
MaxPrompts == 3    \* most prompts in a list of prompts
MaxSide == 4       \* longest side of an image that is split on its own

\* -------------------------------------------------------- small helpers
Range(s) == {s[i] : i \in DOMAIN s}

Min(a, b) == IF a < b THEN a ELSE b

\* The element of a set of one element.  {f(x) : x \in {e}} computes e
\* once, however often f uses x; the tensor operations are written so.
TheOnly(S) == CHOOSE x \in S : TRUE

\* s[lo:hi] of Python for a list: 0-based, hi exclusive, clipped.
Slice(s, lo, hi) == SubSeq(s, lo + 1, Min(hi, Len(s)))

RECURSIVE Flatten(_)
\* The concatenation of a sequence of sequences.
Flatten(ss) == IF ss = <<>> THEN <<>> ELSE Head(ss) \o Flatten(Tail(ss))

RECURSIVE PermSeqs(_)
\* All orderings of the set S, as sequences.
PermSeqs(S) ==
    IF S = {} THEN {<<>>}
    ELSE UNION {{<<x>> \o p : p \in PermSeqs(S \ {x})} : x \in S}

\* The orderings of 0 .. n-1.
Perms(n) == PermSeqs(0..(n - 1))

\* ------------------------------------------------------------- images
Height(img) == Len(img)
Width(img) == IF Len(img) = 0 THEN 0 ELSE Len(img[1])

Blank == <<0, 0, 0>>

\* Frame number f of a video, w x h pixels.
FrameOf(f, w, h) == [y \in 1..h |-> [x \in 1..w |-> <<f, y, x>>]]

\* Image.new("RGB", size=(w, h)): a black image.
NewImage(w, h) == [y \in 1..h |-> [x \in 1..w |-> Blank]]

\* Image.paste(image, box=(ox, oy)): the pixels of image over those of
\* grid, its upper left corner at (ox, oy), clipped to the grid.
Paste(grid, image, ox, oy) ==
    [y \in 1..Height(grid) |-> [x \in 1..Width(grid) |->
        IF /\ y - oy \in 1..Height(image)
           /\ x - ox \in 1..Width(image)
        THEN image[y - oy][x - ox]
        ELSE grid[y][x]]]

\* Image.crop((left, upper, right, lower)).
Crop(image, left, upper, right, lower) ==
    [y \in 1..(lower - upper) |-> [x \in 1..(right - left) |->
        IF (upper + y) \in 1..Height(image) /\ (left + x) \in 1..Width(image)
        THEN image[upper + y][left + x]
        ELSE Blank]]

\* A test that wants every cell filled.
image_grid_raises_partial(images, rows, cols) == Len(images) # rows * cols

\* image_grid raises ValueError when there are more images than cells.
image_grid_raises(images, rows, cols) == Len(images) > rows * cols

RECURSIVE PasteAll(_, _, _, _, _, _)
\* The loop of image_grid: image number i (0-based) goes to column
\* i % cols and row i // cols.
PasteAll(grid, images, i, cols, w, h) ==
    IF i >= Len(images) THEN grid
    ELSE PasteAll(Paste(grid, images[i + 1], (i % cols) * w, (i \div cols) * h),
                  images, i + 1, cols, w, h)

image_grid(images, rows, cols) ==
    LET w == Width(images[1])
        h == Height(images[1])
    IN  PasteAll(NewImage(cols * w, rows * h), images, 0, cols, w, h)

\* A test of the width alone.
image_split_raises_width(image, rows, cols) == Width(image) % cols # 0

\* image_split raises ValueError when the image does not divide evenly.
image_split_raises(image, rows, cols) ==
    Width(image) % cols # 0 \/ Height(image) % rows # 0

\* image_split with the tiles taken column by column.
image_split_colmajor(image, rows, cols) ==
    LET tw == Width(image) \div cols
        th == Height(image) \div rows
    IN  [n \in 1..(rows * cols) |->
            LET i == (n - 1) % rows
                j == (n - 1) \div rows
            IN  Crop(image, j * tw, i * th, j * tw + tw, i * th + th)]

\* The tiles of image, row by row.
image_split(image, rows, cols) ==
    LET tile_width == Width(image) \div cols
        tile_height == Height(image) \div rows
    IN  [n \in 1..(rows * cols) |->
            LET i == (n - 1) \div cols
                j == (n - 1) % cols
                left == j * tile_width
                upper == i * tile_height
            IN  Crop(image, left, upper, left + tile_width, upper + tile_height)]

RECURSIVE ConvertFrom(_, _, _)
\* The loop of _convert_frames_to_grids from frame number i (0-based).
ConvertFrom(video, grid_size, i) ==
    IF i >= Len(video) THEN <<>>
    ELSE <<image_grid(Slice(video, i, i + grid_size * grid_size),
                      grid_size, grid_size)>>
         \o ConvertFrom(video, grid_size, i + grid_size * grid_size)

_convert_frames_to_grids(video, grid_size) == ConvertFrom(video, grid_size, 0)

\* Lines 898-900: some image_grid call of _convert_frames_to_grids raises.
_convert_frames_to_grids_raises(video, grid_size) ==
    \E g \in 0..(Len(video) \div (grid_size * grid_size)) :
        /\ g * grid_size * grid_size < Len(video)
        /\ image_grid_raises(Slice(video, g * grid_size * grid_size,
                                    (g + 1) * grid_size * grid_size),
                              grid_size, grid_size)

_grids_to_frames(grids, grid_size) ==
    Flatten([g \in 1..Len(grids) |-> image_split(grids[g], grid_size, grid_size)])

\* ------------------------------------------------------------ tensors
\* A latent or control tensor is a sequence of grids (the batch), each a
\* matrix of pixels; the channel dimension is left out.

\* Number of pieces torch.chunk makes of a dimension of size n: pieces of
\* size ceil(n / chunks), the last one possibly shorter.
ChunkSize(n, chunks) == (n + chunks - 1) \div chunks
NumChunks(n, chunks) ==
    IF n = 0 THEN 0 ELSE (n + ChunkSize(n, chunks) - 1) \div ChunkSize(n, chunks)

\* grid.chunk(chunks, dim=3): pieces along the width.
ChunkW(m, chunks) ==
    LET sz == ChunkSize(Width(m), chunks)
    IN  [c \in 1..NumChunks(Width(m), chunks) |->
            [y \in 1..Height(m) |->
                SubSeq(m[y], (c - 1) * sz + 1, Min(c * sz, Width(m)))]]

\* grid.chunk(chunks, dim=2): pieces along the height.
ChunkH(m, chunks) ==
    LET sz == ChunkSize(Height(m), chunks)
    IN  [r \in 1..NumChunks(Height(m), chunks) |->
            SubSeq(m, (r - 1) * sz + 1, Min(r * sz, Height(m)))]

\* torch.cat(ms, dim=2) of [C, h, w] slices: side by side.
CatW(ms) == [y \in 1..Height(ms[1]) |-> Flatten([i \in 1..Len(ms) |-> ms[i][y]])]

\* torch.cat(ms, dim=1) of [C, h, w] slices: one below the other.
CatH(ms) == Flatten(ms)

\* One grid cut into its frames column by column: for every width piece
\* in turn, all its height pieces.
UnTileTransposed(grid, grid_size) ==
    Flatten([c \in 1..NumChunks(Width(grid), grid_size) |->
                ChunkH(ChunkW(grid, grid_size)[c], grid_size)])

\* Lines 945-950: one grid cut into its frames.  The batch is first the
\* width pieces; cutting that batch along the height and concatenating
\* gives, for every height piece in turn, all its width pieces.
UnTile(grid, grid_size) ==
    TheOnly({Flatten([r \in 1..NumChunks(Height(grid), grid_size) |->
                 [c \in 1..Len(pieces) |-> pieces[c][r]]]) :
             pieces \in {[c \in 1..NumChunks(Width(grid), grid_size) |->
                             ChunkH(ChunkW(grid, grid_size)[c], grid_size)]}})

Max(S) == CHOOSE m \in S : \A o \in S : o <= m

\* The assignment the other way round:
\* grid_frames[indices[i]] = grid_frames_[rand_indices[i]].
ScatterSwapped(grid_frames_, indices, rand_indices, original_num_frames) ==
    [s \in 1..Len(grid_frames_) |->
        LET writers == {i \in 1..original_num_frames : indices[i] + 1 = s}
        IN  IF writers = {} THEN grid_frames_[s]
            ELSE grid_frames_[rand_indices[Max(writers)] + 1]]

\* Lines 955-956: grid_frames[rand_indices[i]] = grid_frames_[indices[i]]
\* for i = 0 .. original_num_frames - 1, grid_frames_ being the copy made
\* before the loop: a slot holds what the last assignment to it wrote,
\* and what it held before when nothing is assigned to it.
Scatter(grid_frames_, indices, rand_indices, original_num_frames) ==
    [s \in 1..Len(grid_frames_) |->
        LET writers == {i \in 1..original_num_frames : rand_indices[i] + 1 = s}
        IN  IF writers = {} THEN grid_frames_[s]
            ELSE grid_frames_[indices[Max(writers)] + 1]]

\* Lines 958-973: the frames put back into grids, row by row.
ReTile(grid_frames, grid_size, total_frames) ==
    LET per == grid_size * grid_size
    IN  [g \in 1..((total_frames + per - 1) \div per) |->
            LET current == Slice(grid_frames, (g - 1) * per, g * per)
            IN  CatH([j \in 1..grid_size |->
                    CatW([k \in 1..grid_size |->
                        current[(j - 1) * grid_size + (k - 1) + 1]])])]

\* Lines 958-966: current[index] is out of range when the frames of the
\* tensor end before total_frames, the slice grid_frames[i : i + per]
\* being shorter than a grid.
_shuffle_helper_raises(values, grid_size, total_frames) ==
    LET per == grid_size * grid_size
        count == Len(Flatten([g \in 1..Len(values) |->
                                 UnTile(values[g], grid_size)]))
    IN  \E g \in 1..((total_frames + per - 1) \div per) :
            Min(g * per, count) - (g - 1) * per < per

_shuffle_helper(values, grid_size, original_num_frames, total_frames, indices, rand_indices) ==
    TheOnly({ReTile(grid_frames, grid_size, total_frames) :
        grid_frames \in
            {Scatter(grid_frames_, indices, rand_indices, original_num_frames) :
                grid_frames_ \in
                    {Flatten([g \in 1..Len(values) |->
                                 UnTile(values[g], grid_size)])}}})

\* _shuffle; rand_indices is the value torch.randperm returned, is_list
\* tells whether control_video is a list of tensors (several ControlNets).
\* Returns <<shuffled_latents, shuffled_control_video, rand_indices>>.
_shuffle(latents, control_video, is_list, grid_size, original_num_frames, indices, do_classifier_free_guidance, guess_mode, rand_indices) ==
    LET total_frames == grid_size * grid_size * Len(latents)
        helper(v) == _shuffle_helper(v, grid_size, original_num_frames,
                                     total_frames, indices, rand_indices)
        twice(v) == IF do_classifier_free_guidance /\ ~guess_mode THEN v \o v ELSE v
    IN  <<helper(latents),
          IF is_list
          THEN [j \in 1..Len(control_video) |-> twice(helper(control_video[j]))]
          ELSE twice(helper(control_video)),
          rand_indices>>

\* Lines 990-1004: some _shuffle_helper call of _shuffle raises, the
\* total being that of the latents.
_shuffle_raises(latents, control_video, is_list, grid_size) ==
    LET total_frames == grid_size * grid_size * Len(latents)
    IN  \/ _shuffle_helper_raises(latents, grid_size, total_frames)
        \/ IF is_list
           THEN \E j \in 1..Len(control_video) :
                    _shuffle_helper_raises(control_video[j], grid_size,
                                           total_frames)
           ELSE _shuffle_helper_raises(control_video, grid_size, total_frames)

\* ---------------------------------------------------------- rationals
\* Fractions (window bounds, strength, scales, noise estimates) are exact
\* rationals <<numerator, denominator>> with a positive denominator.
RLt(a, b) == a[1] * b[2] < b[1] * a[2]
RGt(a, b) == RLt(b, a)
RGe(a, b) == ~RLt(a, b)
REq(a, b) == a[1] * b[2] = b[1] * a[2]
RMul(a, b) == <<a[1] * b[1], a[2] * b[2]>>
RAdd(a, b) == <<a[1] * b[2] + b[1] * a[2], a[2] * b[2]>>
RSub(a, b) == <<a[1] * b[2] - b[1] * a[2], a[2] * b[2]>>
RInt(n) == <<n, 1>>

\* ---------------------------------------------------- the call's inputs
\* The frames of a video of n frames, each w x h pixels.
VideoOf(n, w, h) == [f \in 1..n |-> FrameOf(f, w, h)]

\* An optional value is <<>> (None) or <<v>>.
\* A control_guidance_start / control_guidance_end argument is
\* [list |-> whether a list was passed, v |-> its values (one for a float)].
Scalar(r) == [list |-> FALSE, v |-> <<r>>]
List(rs) == [list |-> TRUE, v |-> rs]

\* The arguments of the example call of the module's docstring, on a
\* four-frame video; the families below vary them.
Base ==
    [n |-> 4,                       \* len(video)
     w |-> 2,                       \* width of a frame, in pixels
     h |-> 1,                       \* height of a frame, in pixels
     cls |-> <<4>>,                 \* the length of every control video; one
                                    \* control video is passed as a list of
                                    \* frames, several as a list of such lists
     multi |-> FALSE,               \* self.controlnet is a MultiControlNetModel
     nets |-> 1,                    \* the number of ControlNets
     k |-> 2,                       \* grid_size
     prompt |-> "str",              \* "str", "list", "none" or "other"
     prompts |-> 1,                 \* len(prompt) of a list of prompts,
                                    \* prompt_embeds.shape[0] of embeddings
     prompt_embeds |-> FALSE,       \* prompt_embeds is given
     negative |-> "none",           \* "none", "prompt" (negative_prompt),
                                    \* "embeds" (negative_prompt_embeds of the
                                    \* shape of the prompt's embeddings),
                                    \* "shape" (of another sequence length),
                                    \* "both" (negative_prompt and embeddings)
     negative_type |-> "str",       \* type of a negative_prompt: "str", "list"
     negatives |-> 1,               \* len(negative_prompt) of a list
     hidden_size |-> 2,             \* width of the text encoder's embeddings
     callback_steps |-> <<>>,
     inversion_callback_steps |-> <<>>,
     tensor_inputs_ok |-> TRUE,
     inversion_tensor_inputs_ok |-> TRUE,
     cscale |-> [kind |-> "float", v |-> <<<<4, 5>>>>, nested |-> FALSE],
     cgs |-> Scalar(<<0, 1>>),      \* control_guidance_start
     cge |-> Scalar(<<1, 1>>),      \* control_guidance_end
     gs |-> <<2, 1>>,               \* guidance_scale
     guess |-> FALSE,               \* guess_mode
     shuf |-> TRUE,                 \* use_shuffling
     inv |-> "none",                \* "none", "prompt" or "embeds"
     ongrid |-> FALSE,              \* apply_inversion_on_grid
     steps |-> 2,                   \* num_inference_steps
     strength |-> <<1, 1>>,
     invsteps |-> 1,                \* num_inversion_steps
     order |-> 1,                   \* self.scheduler.order
     extra_timesteps |-> 0,         \* len(self.scheduler.timesteps)
                                    \* - num_inference_steps * order, the
                                    \* num_warmup_steps of line 1104
     vbs |-> 4,                     \* vae_batch_size
     clip_skip |-> "given",
     cross_attention_kwargs |-> "given",
     out |-> "pil",                 \* output_type
     generator |-> <<>>,            \* generator: <<>> for None, <<seed>>
     cb |-> <<>>,                   \* callback_on_step_end: <<>> for None, else
                                    \* its tensor inputs and the keys it returns
     icb |-> <<>>,                  \* inversion_callback_on_step_end, likewise
     step_accepts |-> {"eta", "generator"},  \* the keyword parameters of
                                    \* self.scheduler.step among eta, generator
     inverse_step_accepts |-> {"eta", "generator"},  \* those of
                                    \* self.inverse_scheduler.step
     u |-> 0,                       \* the denoiser's unconditional estimate
     c |-> 1]                       \* the denoiser's conditional estimate

\* ------------------------------------------------------- check_inputs
\* Lines 1356-1365: control_guidance_start and control_guidance_end
\* brought to lists; <<start, end>>.
AlignGuidance(a) ==
    LET rep(count, r) == [j \in 1..count |-> r]
    IN  IF ~a.cgs.list /\ a.cge.list
        THEN <<rep(Len(a.cge.v), a.cgs.v[1]), a.cge.v>>
        ELSE IF ~a.cge.list /\ a.cgs.list
        THEN <<a.cgs.v, rep(Len(a.cgs.v), a.cge.v[1])>>
        ELSE IF ~a.cgs.list /\ ~a.cge.list
        THEN LET mult == IF a.multi THEN a.nets ELSE 1
             IN  <<rep(mult, a.cgs.v[1]), rep(mult, a.cge.v[1])>>
        ELSE <<a.cgs.v, a.cge.v>>

\* The window checks that look at the first window only.
CheckWindowsFirst(start, end, j) ==
    IF j > 1 \/ j > Len(start) \/ j > Len(end) THEN "ok"
    ELSE IF RGe(start[j], end[j]) THEN "ValueError: start >= end"
    ELSE IF RLt(start[j], RInt(0)) THEN "ValueError: start < 0"
    ELSE IF RGt(end[j], RInt(1)) THEN "ValueError: end > 1"
    ELSE "ok"

\* The checks of lines 706-714 on the windows from number j on: the error
\* of the first window that fails, "ok" when none does.
RECURSIVE CheckWindows(_, _, _)
CheckWindows(start, end, j) ==
    IF j > Len(start) \/ j > Len(end) THEN "ok"
    ELSE IF RGe(start[j], end[j]) THEN "ValueError: start >= end"
    ELSE IF RLt(start[j], RInt(0)) THEN "ValueError: start < 0"
    ELSE IF RGt(end[j], RInt(1)) THEN "ValueError: end > 1"
    ELSE CheckWindows(start, end, j + 1)

\* Lines 596-600: some control video is not as long as the video.
LengthMismatch(a) == \E j \in 1..Len(a.cls) : a.n # a.cls[j]

\* A check_inputs that looks at the lengths and the windows only.
check_inputs_windows_only(a, start, end) ==
    IF LengthMismatch(a) THEN "ValueError: video and control_video length"
    ELSE IF Len(start) # Len(end)
    THEN "ValueError: control_guidance lengths"
    ELSE IF a.multi /\ Len(start) # a.nets
    THEN "ValueError: control_guidance count"
    ELSE CheckWindows(start, end, 1)

\* check_inputs: the error it raises, "ok" when it returns.  start and
\* end are the aligned window lists.
check_inputs(a, start, end) ==
    IF LengthMismatch(a) THEN "ValueError: video and control_video length"
    ELSE IF a.callback_steps # <<>> /\ a.callback_steps[1] <= 0
    THEN "ValueError: callback_steps"
    ELSE IF a.inversion_callback_steps # <<>> /\ a.inversion_callback_steps[1] <= 0
    THEN "ValueError: inversion_callback_steps"
    ELSE IF ~a.tensor_inputs_ok
    THEN "ValueError: callback_on_step_end_tensor_inputs"
    ELSE IF ~a.inversion_tensor_inputs_ok
    THEN "ValueError: inversion_callback_on_step_end_tensor_inputs"
    ELSE IF a.prompt # "none" /\ a.prompt_embeds
    THEN "ValueError: prompt and prompt_embeds"
    ELSE IF a.prompt = "none" /\ ~a.prompt_embeds
    THEN "ValueError: neither prompt nor prompt_embeds"
    ELSE IF a.prompt = "other"
    THEN "ValueError: prompt type"
    ELSE IF a.negative = "both"
    THEN "ValueError: negative_prompt and negative_prompt_embeds"
    ELSE IF a.prompt_embeds /\ a.negative = "shape"
    THEN "ValueError: embeds shape"
    ELSE IF ~a.multi /\ a.cscale.kind # "float"
    THEN "TypeError: controlnet_conditioning_scale"
    ELSE IF a.multi /\ a.cscale.kind = "list" /\ a.cscale.nested
    THEN "ValueError: nested controlnet_conditioning_scale"
    ELSE IF Len(start) # Len(end)
    THEN "ValueError: control_guidance lengths"
    ELSE IF a.multi /\ Len(start) # a.nets
    THEN "ValueError: control_guidance count"
    ELSE CheckWindows(start, end, 1)

\* ------------------------------------------------ timesteps and weights
\* scheduler.timesteps after set_timesteps(num_inference_steps), for a
\* scheduler of the given order whose timesteps number extra more than
\* num_inference_steps * order (fewer for a negative extra; line 1104
\* provides for the difference): the noise levels, highest first.
SchedulerTimesteps(num_inference_steps, order, extra) ==
    LET count == IF num_inference_steps * order + extra > 0
                 THEN num_inference_steps * order + extra ELSE 0
    IN  [i \in 1..count |-> count + 1 - i]

\* inverse_scheduler.timesteps: the noise levels, lowest first.
InverseTimesteps(num_inversion_steps) == [i \in 1..num_inversion_steps |-> i]

\* ---- int(num_inference_steps * strength), line 788, in floating point.
\* A strength <<num, den>> stands for the double nearest to num / den.
\* The product with an integer n is rounded to the nearest double and
\* then truncated; it differs from the exact floor only when n * num / den
\* is an integer p, the double of the strength lies below num / den, and
\* the shortfall of the product is more than half the gap between p and
\* the double before it: then the result is p - 1.
RECURSIVE Pow2(_)
Pow2(k) == IF k <= 0 THEN 1 ELSE 2 * Pow2(k - 1)

\* The exponent of a positive integer: the e with 2^e <= p < 2^(e + 1).
RECURSIVE Exponent(_)
Exponent(p) == IF p < 2 THEN 0 ELSE 1 + Exponent(p \div 2)

\* a / b brought into [1, 2): <<a', b', e>> with a / b = (a' / b') * 2^e.
RECURSIVE Normalised(_, _, _)
Normalised(a, b, e) ==
    IF a >= 2 * b THEN Normalised(a, 2 * b, e + 1)
    ELSE IF a < b THEN Normalised(2 * a, b, e - 1)
    ELSE <<a, b, e>>

\* Long division of r / b by bits more binary digits: <<the remainder,
\* the last digit>>.
RECURSIVE MantissaRest(_, _, _, _)
MantissaRest(r, b, bits, last) ==
    IF bits = 0 THEN <<r, last>>
    ELSE IF 2 * r >= b THEN MantissaRest(2 * r - b, b, bits - 1, 1)
    ELSE MantissaRest(2 * r, b, bits - 1, 0)

\* By how much the double nearest to num / den (53 significant bits,
\* round to nearest, ties to even) lies below num / den, in units of
\* 1 / b of its last place, b the normalised denominator; 0 when it is
\* equal or above.
FloatShortfall(num, den) ==
    LET nrm == Normalised(num, den, 0)
        rest == MantissaRest(nrm[1] - nrm[2], nrm[2], 52, 1)
    IN  IF 2 * rest[1] < nrm[2] \/ (2 * rest[1] = nrm[2] /\ rest[2] = 0)
        THEN rest[1] ELSE 0

\* int(n * strength) for an integer n >= 0 and a float strength.
IntOfProduct(n, strength) ==
    LET num == IF strength[1] < 0 THEN -strength[1] ELSE strength[1]
        den == strength[2]
        sign == IF strength[1] < 0 THEN -1 ELSE 1
        p == (n * num) \div den
    IN  IF n = 0 \/ num = 0 THEN 0
        ELSE IF (n * num) % den # 0 THEN sign * p
        ELSE LET nrm == Normalised(num, den, 0)
                 ep == Exponent(p)
                 x == nrm[3] + 1 + (IF Pow2(ep) = p THEN 1 ELSE 0)
                 shortfall == n * FloatShortfall(num, den) * Pow2(x)
                 halfgap == nrm[2] * Pow2(ep) * Pow2(-x)
             IN  sign * (IF shortfall > halfgap THEN p - 1 ELSE p)

\* get_timesteps that keeps the first timesteps instead of the last.
get_timesteps_first(timesteps, num_inference_steps, strength, order) ==
    LET scaled == IntOfProduct(num_inference_steps, strength)
        init_timestep == Min(scaled, num_inference_steps)
    IN  SubSeq(timesteps, 1,
               IF init_timestep > 0
               THEN Min(init_timestep * order, Len(timesteps)) ELSE 0)

\* get_timesteps (lines 786-793): the timesteps of the main loop,
\* scheduler.timesteps[t_start * scheduler.order :], timesteps being
\* self.scheduler.timesteps.
get_timesteps(timesteps, num_inference_steps, strength, order) ==
    LET scaled == IntOfProduct(num_inference_steps, strength)
        init_timestep == Min(scaled, num_inference_steps)
        t_start == IF num_inference_steps - init_timestep > 0
                   THEN num_inference_steps - init_timestep ELSE 0
    IN  SubSeq(timesteps, t_start * order + 1, Len(timesteps))

\* A keep weight whose end bound is tested at the step's start.
KeepWeightEarly(i, total, s, e) ==
    IF RLt(<<i, total>>, s) \/ RGt(<<i, total>>, e) THEN 0 ELSE 1

\* Line 1587: 1.0 - float(i / total < s or (i + 1) / total > e).
KeepWeight(i, total, s, e) ==
    IF RLt(<<i, total>>, s) \/ RGt(<<i + 1, total>>, e) THEN 0 ELSE 1

\* Lines 1584-1590: controlnet_keep, one entry per timestep; the entry is
\* the list of the weights for several ControlNets and the first weight
\* for a single one.
ControlnetKeep(total, start, end, multi) ==
    [i \in 1..total |->
        LET keeps == [j \in 1..Min(Len(start), Len(end)) |->
                          KeepWeight(i - 1, total, start[j], end[j])]
        IN  IF multi THEN keeps ELSE keeps[1]]

\* Line 1596: the start bound is measured against len(timesteps), the
\* end bound against len(inversion_timesteps).
InversionKeepWeight(i, total, inv_total, s, e) ==
    IF RLt(<<i, total>>, s) \/ RGt(<<i + 1, inv_total>>, e) THEN 0 ELSE 1

\* Lines 1593-1599: inversion_controlnet_keep.
InversionControlnetKeep(total, inv_total, start, end, multi) ==
    [i \in 1..inv_total |->
        LET keeps == [j \in 1..Min(Len(start), Len(end)) |->
                          InversionKeepWeight(i - 1, total, inv_total,
                                              start[j], end[j])]
        IN  IF multi THEN keeps ELSE keeps[1]]

\* --------------------------------------------------------------- state
VARIABLES
    args,        \* the arguments of the call (never change)
    pc,          \* where the call is: "start", "packed", "checked",
                 \* "encoded", "prepared", "inversion", "denoise", "done",
                 \* "error"
    err,         \* the error the call raised, "" for none
    loc,         \* local variables of __call__ set before the loops
    grids,       \* the video packed into grids
    control_grids,   \* every control video packed into grids
    inversion_video, \* the frames (or grids) the inversion starts from
    inversion_control_video, \* the control input of the inversion loop
    latents,     \* the latent batch
    control,     \* the control tensor(s) of the main loop
    indices,     \* the index table: indices[i + 1] is the slot of frame i
    step,        \* iterations of the current loop that are complete
    fields,      \* the per-call fields of the pipeline object
    calls,       \* how often every collaborator was called
    last,        \* what the last loop iteration passed to its collaborators
    output,      \* what the call returned
    generator,   \* the caller's torch.Generator: <<>> for None, else its
                 \* seed and the number of draws made from it
    loop         \* the embeddings the running _denoise_loop holds

vars == <<args, pc, err, loc, grids, control_grids, inversion_video,
          inversion_control_video, latents, control, indices, step, fields,
          calls, last, output,
          generator, loop>>

NoLoc ==
    [start |-> <<>>, end |-> <<>>, strength |-> <<>>, prompt_embeds |-> <<>>,
     inversion_prompt_embeds |-> <<>>, negative_prompt_embeds |-> <<>>,
     negative_inversion_prompt_embeds |-> <<>>,
     cscale |-> <<>>, guess_mode |-> FALSE,
     timesteps |-> <<>>, inversion_timesteps |-> <<>>, latent_timestep |-> <<>>,
     extra_step_kwargs |-> {},
     num_grid_frames |-> 0, inversion_num_frames |-> 0,
     controlnet_keep |-> <<>>, inversion_controlnet_keep |-> <<>>]

NoCalls ==
    [text_encoder |-> 0, vae_encode |-> 0, vae_decode |-> 0, add_noise |-> 0,
     controlnet |-> 0, unet |-> 0,
     set_timesteps |-> 0, inverse_set_timesteps |-> 0,
     scale_model_input |-> 0, scheduler_step |-> 0,
     inverse_scale_model_input |-> 0, inverse_step |-> 0,
     randperm |-> 0, shuffle |-> 0, callback_on_step_end |-> 0]

NoStep == [loop |-> "none"]

NoLoop == [prompt_embeds |-> <<>>, negative_prompt_embeds |-> <<>>]

InitAt(family, at) ==
    /\ args \in family
    /\ pc = at
    /\ err = ""
    /\ loc = NoLoc
    /\ grids = <<>>
    /\ control_grids = <<>>
    /\ inversion_video = <<>>
    /\ inversion_control_video = <<>>
    /\ latents = <<>>
    /\ control = <<>>
    /\ indices = <<>>
    /\ step = 0
    /\ fields = [_guidance_scale |-> <<>>, _clip_skip |-> "previous",
                 _cross_attention_kwargs |-> "previous", _num_timesteps |-> <<>>]
    /\ calls = NoCalls
    /\ last = NoStep
    /\ output = <<>>
    /\ generator = IF args.generator = <<>> THEN <<>>
                   ELSE [seed |-> args.generator[1], draws |-> 0]
    /\ loop = NoLoop

\* The state at the entry of __call__.
InitWith(family) == InitAt(family, "start")

\* A call that always inverts.
is_inversion_mode_always == TRUE

\* Line 1373.
is_inversion_mode == args.inv # "none"

\* The property that is true for every guidance scale.
do_classifier_free_guidance_always(f) == TRUE

\* The property that is true from guidance scale 1 on.
do_classifier_free_guidance_from_one(f) ==
    f._guidance_scale # <<>> /\ RGe(f._guidance_scale[1], RInt(1))

\* Lines 919-921: self._guidance_scale > 1.
do_classifier_free_guidance(f) ==
    f._guidance_scale # <<>> /\ RGt(f._guidance_scale[1], RInt(1))

\* A table that starts from the reversed order.
ArangeReversed(n) == [i \in 1..n |-> n - i]

\* torch.arange(n).
Arange(n) == [i \in 1..n |-> i - 1]

\* Number of batches of at most size items that count items make.
Batches(count, size) == (count + size - 1) \div size

\* A generator that draws leave as it was.
AdvanceStuck(g, count) == g

\* Lines 857, 142, 989: a generator after count more draws (None stays
\* None).
Advance(g, count) == IF g = <<>> THEN g ELSE [g EXCEPT !.draws = @ + count]

Raise(e) ==
    /\ pc' = "error"
    /\ err' = e

\* ------------------------------------------------------------- actions
\* Lines 1335-1402: the window arguments aligned, the video and the
\* control videos packed into grids.  control_video[0] (line 1367) raises
\* IndexError for an empty control_video list, which is what a single
\* control video without frames is; video[0] (line 1370) raises it for
\* an empty video.
Pack ==
    /\ pc = "start"
    /\ IF Len(args.cls) = 0 \/ (Len(args.cls) = 1 /\ args.cls[1] = 0)
       THEN /\ Raise("IndexError: control_video[0]")
            /\ UNCHANGED <<loc, grids, control_grids, inversion_video,
                           inversion_control_video>>
       ELSE IF args.n = 0
       THEN /\ Raise("IndexError: video[0]")
            /\ UNCHANGED <<loc, grids, control_grids, inversion_video,
                           inversion_control_video>>
       ELSE LET video == VideoOf(args.n, args.w, args.h)
                control_video == [j \in 1..Len(args.cls) |->
                                     VideoOf(args.cls[j], args.w, args.h)]
                g == _convert_frames_to_grids(video, args.k)
                cg == [j \in 1..Len(control_video) |->
                          _convert_frames_to_grids(control_video[j], args.k)]
                aligned == AlignGuidance(args)
                raises == \/ _convert_frames_to_grids_raises(video, args.k)
                          \/ \E j \in 1..Len(control_video) :
                                _convert_frames_to_grids_raises(control_video[j],
                                                                args.k)
            IN  IF raises
                THEN /\ Raise("ValueError: exceeds grid size")
                     /\ UNCHANGED <<loc, grids, control_grids, inversion_video,
                                    inversion_control_video>>
                ELSE
                /\ grids' = g
                /\ control_grids' = cg
                /\ inversion_video' = IF args.ongrid THEN g ELSE video
                /\ inversion_control_video' =
                       IF args.ongrid THEN cg ELSE control_video
                /\ loc' = [loc EXCEPT
                       !.start = aligned[1],
                       !.end = aligned[2],
                       !.num_grid_frames = Len(g),
                       !.inversion_num_frames =
                           IF args.ongrid THEN Len(g) ELSE Len(video),
                       !.strength = IF is_inversion_mode THEN RInt(1)
                                    ELSE args.strength]
                /\ pc' = "packed"
                /\ err' = err
    /\ UNCHANGED <<loop, generator, args, latents, control, indices, step, fields, calls,
                   last, output>>

\* Lines 1404-1419: check_inputs.
CheckInputs ==
    /\ pc = "packed"
    /\ LET r == check_inputs(args, loc.start, loc.end)
       IN  IF r = "ok"
           THEN pc' = "checked" /\ err' = err
           ELSE Raise(r)
    /\ UNCHANGED <<loop, generator, args, loc, grids, control_grids, inversion_video,
                   inversion_control_video, latents, control, indices, step,
                   fields, calls, last, output>>

\* Lines 1425-1430: 1 for a prompt string, len(prompt) for a list of
\* prompts, prompt_embeds.shape[0] otherwise.
batch_size(a) == IF a.prompt = "str" THEN 1 ELSE a.prompts

\* Whether the negative embeddings encode_prompt returns have the shape
\* of the prompt embeddings.  Given ones of another sequence length do
\* not; the one embedding of a negative prompt string is viewed as batch
\* rows (lines 497-498), of the width divided by batch.
SameShape(batch, negative, negative_type) ==
    /\ negative # "shape"
    /\ ~(negative = "prompt" /\ negative_type = "str" /\ batch > 1)

\* Lines 1479-1482: torch.cat([negative_prompt_embeds, prompt_embeds])
\* under guidance, the conditional embeddings alone without; the batch is
\* written as the sequence of its halves.  torch.cat raises RuntimeError
\* for embeddings of different shapes.
PromptEmbeds(cfg, same_shape) ==
    IF ~cfg THEN <<"pos">>
    ELSE IF ~same_shape
    THEN "RuntimeError: torch.cat([negative_prompt_embeds, prompt_embeds])"
    ELSE <<"neg", "pos">>

\* encode_prompt, lines 447-463 and 497-498: the error it raises for the
\* negative prompt, "ok" when it raises none.  Under guidance and without
\* negative embeddings a negative prompt must have the type of the
\* prompt, if there is one, and a list of negative prompts must have
\* batch entries; the embedding of a negative prompt string is viewed as
\* batch rows, which raises RuntimeError when its width is no multiple of
\* batch.
encode_prompt_raises(prompt, batch, negative, negative_type, negatives, cfg, hidden_size) ==
    IF ~cfg \/ negative # "prompt" THEN "ok"
    ELSE IF prompt # "none" /\ prompt # negative_type
    THEN "TypeError: negative_prompt type"
    ELSE IF negative_type = "str"
    THEN IF hidden_size % batch # 0
         THEN "RuntimeError: negative_prompt_embeds.view"
         ELSE "ok"
    ELSE IF batch # negatives
    THEN "ValueError: negative_prompt batch size"
    ELSE "ok"

\* The text encoder calls of one encode_prompt that returns (lines
\* 384-489): one for the prompt unless embeddings were given, one for the
\* negative prompt under guidance unless negative embeddings were given.
EncodeCalls(embeds_given, negative_embeds_given, cfg) ==
    (IF embeds_given THEN 0 ELSE 1)
    + (IF cfg /\ ~negative_embeds_given THEN 1 ELSE 0)

\* encode_prompt (lines 464-505): the negative embeddings it returns
\* when it has raised no error, None (<<>>) when none were given and
\* guidance is off.
NegativeEmbeds(negative_embeds_given, cfg) ==
    IF cfg \/ negative_embeds_given THEN <<"neg">> ELSE <<>>

\* Lines 1421-1487: the per-call fields are written and the prompts are
\* encoded.  An error of encode_prompt for the type or the length of the
\* negative prompt comes after the fields are written and the prompt has
\* gone through the text encoder (unless embeddings were given), the
\* error of its view after the negative prompt has gone through it too,
\* and the error of torch.cat (line 1480) after both encode_prompt calls.
EncodePrompts ==
    /\ pc = "checked"
    /\ fields' = [fields EXCEPT
           !._guidance_scale = <<args.gs>>,
           !._clip_skip = args.clip_skip,
           !._cross_attention_kwargs = args.cross_attention_kwargs]
    /\ LET cfg == do_classifier_free_guidance(fields')
           raises == encode_prompt_raises(args.prompt, batch_size(args),
                                          args.negative, args.negative_type,
                                          args.negatives, cfg,
                                          args.hidden_size)
           same_shape == SameShape(batch_size(args), args.negative,
                                   args.negative_type)
           encode_calls ==
               EncodeCalls(args.prompt_embeds,
                           args.negative \in {"embeds", "shape"}, cfg)
               + (IF is_inversion_mode
                  THEN EncodeCalls(args.inv = "embeds", FALSE, cfg)
                  ELSE 0)
           cscale == IF args.multi /\ args.cscale.kind = "float"
                     THEN [kind |-> "list",
                           v |-> [j \in 1..args.nets |-> args.cscale.v[1]],
                           nested |-> FALSE]
                     ELSE args.cscale
       IN  IF raises # "ok"
           THEN /\ Raise(raises)
                /\ calls' = [calls EXCEPT !.text_encoder =
                       @ + (IF args.prompt_embeds THEN 0 ELSE 1)
                         + (IF raises = "RuntimeError: negative_prompt_embeds.view"
                            THEN 1 ELSE 0)]
                /\ loc' = [loc EXCEPT !.guess_mode = args.guess,
                                      !.cscale = cscale]
           ELSE IF cfg /\ ~same_shape
           THEN /\ Raise(PromptEmbeds(cfg, same_shape))
                /\ calls' = [calls EXCEPT !.text_encoder = @ + encode_calls]
                /\ loc' = [loc EXCEPT !.guess_mode = args.guess,
                                      !.cscale = cscale]
           ELSE
           /\ calls' = [calls EXCEPT !.text_encoder = @ + encode_calls]
           /\ loc' = [loc EXCEPT
                  !.prompt_embeds = PromptEmbeds(cfg, same_shape),
                  !.negative_prompt_embeds =
                      NegativeEmbeds(args.negative \in {"embeds", "shape"}, cfg),
                  !.inversion_prompt_embeds =
                      IF is_inversion_mode THEN PromptEmbeds(cfg, TRUE)
                      ELSE <<>>,
                  !.negative_inversion_prompt_embeds =
                      IF is_inversion_mode THEN NegativeEmbeds(FALSE, cfg)
                      ELSE <<>>,
                  !.guess_mode = args.guess,
                  !.cscale = cscale]
           /\ pc' = "encoded"
           /\ err' = err
    /\ UNCHANGED <<loop, generator, args, grids, control_grids, inversion_video,
                   inversion_control_video, latents, control, indices, step,
                   last, output>>

\* tensor.repeat_interleave(repeat_by, dim=0): every item repeat_by times
\* in a row.
RepeatInterleave(t, repeat_by) ==
    [i \in 1..(Len(t) * repeat_by) |-> t[((i - 1) \div repeat_by) + 1]]

\* torch.cat([t] * times, dim=0).
Repeat(t, times) == [i \in 1..(Len(t) * times) |-> t[((i - 1) % Len(t)) + 1]]

\* prepare_control_image (lines 755-783): a single image is repeated
\* batch_size times, several num_images_per_prompt times each; the
\* batch is taken twice under guidance unless guess_mode is on.
prepare_control_image(image, batch, num_images_per_prompt, cfg, guess_mode) ==
    LET repeat_by == IF Len(image) = 1 THEN batch ELSE num_images_per_prompt
        repeated == RepeatInterleave(image, repeat_by)
    IN  IF cfg /\ ~guess_mode THEN repeated \o repeated ELSE repeated

\* Lines 1499-1566 for one control input: a tensor for a single
\* ControlNet (from the first control video), a list of tensors for
\* several; num_videos_per_prompt is 1 (line 1376).
PrepareControl(cv, cfg, guess_mode) ==
    IF args.multi
    THEN [j \in 1..Len(cv) |->
             prepare_control_image(cv[j], batch_size(args) * 1, 1, cfg, guess_mode)]
    ELSE prepare_control_image(cv[1], batch_size(args) * 1, 1, cfg, guess_mode)

\* prepare_extra_step_kwargs (lines 558-574): the keys of the keyword
\* arguments for the step calls, those among eta and generator that
\* self.scheduler.step has as parameters.
prepare_extra_step_kwargs(accepts) ==
    {key \in {"eta", "generator"} : key \in accepts}

\* Lines 1489-1599: the control tensors, the timesteps of both
\* schedulers and the keep weights.  Line 1596 divides by len(timesteps).
Prepare ==
    /\ pc = "encoded"
    /\ LET cfg == do_classifier_free_guidance(fields)
           timesteps == get_timesteps(
                            SchedulerTimesteps(args.steps, args.order,
                                               args.extra_timesteps),
                            args.steps, loc.strength, args.order)
           inversion_timesteps == InverseTimesteps(args.invsteps)
       IN  /\ control' = PrepareControl(control_grids, cfg, loc.guess_mode)
           /\ inversion_control_video' =
                  IF is_inversion_mode
                  THEN PrepareControl(inversion_control_video, cfg, loc.guess_mode)
                  ELSE inversion_control_video
           /\ calls' = [calls EXCEPT !.set_timesteps = @ + 1,
                                     !.inverse_set_timesteps = @ + 1]
           /\ fields' = [fields EXCEPT !._num_timesteps = <<Len(timesteps)>>]
           /\ IF Len(timesteps) = 0 /\ Len(inversion_timesteps) > 0
              THEN /\ Raise("ZeroDivisionError: i / len(timesteps)")
                   /\ loc' = [loc EXCEPT
                          !.timesteps = timesteps,
                          !.latent_timestep =
                              Repeat(Slice(timesteps, 0, 1), batch_size(args) * 1),
                          !.extra_step_kwargs =
                              prepare_extra_step_kwargs(args.step_accepts),
                          !.inversion_timesteps = inversion_timesteps]
              ELSE /\ pc' = "prepared"
                   /\ err' = err
                   /\ loc' = [loc EXCEPT
                          !.timesteps = timesteps,
                          !.latent_timestep =
                              Repeat(Slice(timesteps, 0, 1), batch_size(args) * 1),
                          !.extra_step_kwargs =
                              prepare_extra_step_kwargs(args.step_accepts),
                          !.inversion_timesteps = inversion_timesteps,
                          !.controlnet_keep =
                              ControlnetKeep(Len(timesteps), loc.start,
                                             loc.end, args.multi),
                          !.inversion_controlnet_keep =
                              InversionControlnetKeep(
                                  Len(timesteps), Len(inversion_timesteps),
                                  loc.start, loc.end, args.multi)]
    /\ UNCHANGED <<loop, generator, args, grids, control_grids, inversion_video, latents,
                   indices, step, last, output>>

\* A prepare_latents that adds noise in every mode.
AddsNoiseAlways(inversion_mode) == TRUE

\* Line 855 of prepare_latents: noise is drawn and added unless
\* is_inversion_mode.
AddsNoise(inversion_mode) == ~inversion_mode

\* Lines 847-850 of prepare_latents: more prompts than images, and not a
\* multiple of them, is a ValueError.
prepare_latents_raises(image, batch, num_images_per_prompt) ==
    LET wanted == batch * num_images_per_prompt
    IN  wanted > Len(image) /\ wanted % Len(image) # 0

\* prepare_latents (lines 795-863): the encoded images, taken as often
\* as it takes to have one for every prompt when there are more prompts
\* than images (lines 836-846).
prepare_latents(image, batch, num_images_per_prompt) ==
    LET wanted == batch * num_images_per_prompt
    IN  IF wanted > Len(image) /\ wanted % Len(image) = 0
        THEN Repeat(image, wanted \div Len(image))
        ELSE image

\* The loops of lines 1604, 1620, 1668, 1681 and 1730:
\* source[i : i + size] for i in range(0, count, size).
Chunks(source, count, size) ==
    [c \in 1..Batches(count, size) |-> Slice(source, (c - 1) * size, c * size)]

\* Lines 1602-1633 and 1679-1692: prepare_latents on every batch of
\* vae_batch_size images, the results concatenated.  `encoded` batches
\* went through vae.encode and `done` batches through the whole of
\* prepare_latents before a ValueError, if any.
EncodeLatents(source, count) ==
    LET chunks == Chunks(source, count, args.vbs)
        bad == {c \in DOMAIN chunks :
                   prepare_latents_raises(chunks[c], batch_size(args), 1)}
        first == IF bad = {} THEN 0 ELSE CHOOSE c \in bad : \A d \in bad : c <= d
    IN  [raises |-> bad # {},
         encoded |-> IF bad = {} THEN Len(chunks) ELSE first,
         done |-> IF bad = {} THEN Len(chunks) ELSE first - 1,
         latents |-> IF bad # {} THEN <<>>
                     ELSE Flatten([c \in DOMAIN chunks |->
                              prepare_latents(chunks[c], batch_size(args), 1)])]

\* Lines 1601-1644 (and 1696-1699 when there is no inversion): the
\* starting latents are encoded in batches of vae_batch_size, from the
\* grids with noise added, or in inversion mode from the inversion video
\* without noise.
PrepareLatents ==
    /\ pc = "prepared"
    /\ LET source == IF is_inversion_mode THEN inversion_video ELSE grids
           e == EncodeLatents(source, IF is_inversion_mode
                                      THEN loc.inversion_num_frames
                                      ELSE loc.num_grid_frames)
           noised == IF AddsNoise(is_inversion_mode) THEN e.done ELSE 0
       IN  /\ calls' = [calls EXCEPT !.vae_encode = @ + e.encoded,
                                     !.add_noise = @ + noised]
           /\ generator' = Advance(generator, e.encoded + noised)
           /\ IF e.raises
              THEN /\ Raise("ValueError: cannot duplicate image")
                   /\ UNCHANGED <<latents, indices, step, loop>>
              ELSE /\ latents' = e.latents
                   /\ pc' = IF is_inversion_mode THEN "inversion" ELSE "denoise"
                   /\ err' = err
                   /\ indices' = IF is_inversion_mode THEN <<>> ELSE Arange(args.n)
                   /\ step' = 0
                   /\ loop' = IF is_inversion_mode
                              THEN [prompt_embeds |-> loc.inversion_prompt_embeds,
                                    negative_prompt_embeds |->
                                        loc.negative_inversion_prompt_embeds]
                              ELSE [prompt_embeds |-> loc.prompt_embeds,
                                    negative_prompt_embeds |->
                                        loc.negative_prompt_embeds]
    /\ UNCHANGED <<args, loc, grids, control_grids, inversion_video,
                   inversion_control_video, control, fields, last, output>>

\* The values torch.randperm(n) can return (line 989): every ordering of
\* 0 .. n - 1.
RandIndices(n) == Perms(n)

\* The permutation of 0 .. n - 1 number code: the item at position
\* code % n of the items left comes first, the rest follows the same way.
RECURSIVE Unrank(_, _)
Unrank(code, pool) ==
    IF pool = <<>> THEN <<>>
    ELSE LET at == (code % Len(pool)) + 1
         IN  <<pool[at]>>
             \o Unrank(code \div Len(pool),
                       SubSeq(pool, 1, at - 1) \o SubSeq(pool, at + 1, Len(pool)))

\* torch.randperm(n, generator=g) for a seeded generator: a function of
\* the seed and of the number of draws made before.
Draw(seed, draws, n) == Unrank(seed * 7 + draws * 5 + 3, Arange(n))

\* torch.randperm that draws from the global random state whatever
\* generator it is given.
randperm_global(n, g) == RandIndices(n)

\* Line 989, torch.randperm(original_num_frames, generator=generator):
\* the values it can return; without a generator the draw is from the
\* global random state and can be any permutation.
randperm(n, g) ==
    IF g = <<>> THEN RandIndices(n) ELSE {Draw(g.seed, g.draws, n)}

\* The denoiser's estimate for one half of its batch.
Unet(half) == IF half = "neg" THEN RInt(args.u) ELSE RInt(args.c)

\* Guidance that takes the first half for the conditional estimate.
GuidanceSwapped(noise_pred, guidance_scale) ==
    RAdd(noise_pred[2], RMul(guidance_scale, RSub(noise_pred[1], noise_pred[2])))

\* Lines 1173-1174: noise_pred.chunk(2) gives the unconditional and the
\* text estimate; unconditional + guidance_scale * (text - unconditional).
Guidance(noise_pred, guidance_scale) ==
    LET noise_pred_uncond == noise_pred[1]
        noise_pred_text == noise_pred[2]
    IN  RAdd(noise_pred_uncond,
             RMul(guidance_scale, RSub(noise_pred_text, noise_pred_uncond)))

\* Lines 1134-1140: the conditioning scale of the step, a list for
\* several ControlNets (zip stops at the shorter list).
CondScale(cscale, keep, multi) ==
    IF multi
    THEN [j \in 1..Min(Len(cscale.v), Len(keep)) |->
              RMul(cscale.v[j], RInt(keep[j]))]
    ELSE RMul(cscale.v[1], RInt(keep))

\* A loop that shuffles whenever it is given an index table, with the
\* reversed table when no permutation was drawn.
ShuffleStepAlways(lat, control_video, use_shuffling, num_frames, idx, rand_indices) ==
    IF use_shuffling \/ idx # <<>>
    THEN _shuffle(lat, control_video, args.multi, args.k, num_frames, idx,
                  do_classifier_free_guidance(fields), loc.guess_mode,
                  IF rand_indices # <<>> THEN rand_indices
                  ELSE [i \in 1..num_frames |-> num_frames - i]) \o <<1>>
    ELSE <<lat, control_video, idx, 0>>

\* Lines 1108-1118 of the loop of _denoise_loop: with use_shuffling the
\* latents and the control tensors are shuffled and the table replaced;
\* <<latents, control_video, indices, calls of _shuffle>>.
ShuffleStep(lat, control_video, use_shuffling, num_frames, idx, rand_indices) ==
    IF use_shuffling
    THEN _shuffle(lat, control_video, args.multi, args.k, num_frames, idx,
                  do_classifier_free_guidance(fields), loc.guess_mode,
                  rand_indices) \o <<1>>
    ELSE <<lat, control_video, idx, 0>>

\* What a callback_on_step_end returns for a key it returns: tensors of
\* the shapes it was given, with values of its own.
CallbackValue(key, lat, lp) ==
    IF key = "latents"
    THEN [g \in 1..Len(lat) |->
             [y \in 1..Height(lat[g]) |->
                 [x \in 1..Width(lat[g]) |->
                     <<lat[g][y][x][1] + 100, lat[g][y][x][2], lat[g][y][x][3]>>]]]
    ELSE IF key = "prompt_embeds"
    THEN [e \in 1..Len(lp.prompt_embeds) |-> "callback"]
    ELSE <<"callback">>

\* A loop that keeps its own value whatever the callback returns.
CallbackPopIgnored(callback_outputs, key, current) == current

\* Lines 1185-1187: callback_outputs.pop(key, current).
CallbackPop(callback_outputs, key, current) ==
    IF key \in DOMAIN callback_outputs THEN callback_outputs[key] ELSE current

\* Lines 1120-1187 of the loop of _denoise_loop: what iteration i passes
\* to the ControlNet, the denoiser, the scheduler and the
\* callback_on_step_end cb, in the order of the calls (events), and the
\* latents and embeddings it leaves.  sh is what the shuffle of the
\* iteration left, lp the embeddings the loop holds.
DenoiseStep(scheduler, i, t, lp, sh, use_shuffling, keep, cb) ==
    LET cfg == do_classifier_free_guidance(fields)
        prompt_embeds == lp.prompt_embeds
        latent_model_input == IF cfg THEN sh[1] \o sh[1] ELSE sh[1]
        guess_cfg == loc.guess_mode /\ cfg
        control_model_input == IF guess_cfg THEN sh[1] ELSE latent_model_input
        controlnet_prompt_embeds ==
            IF guess_cfg THEN <<prompt_embeds[2]>> ELSE prompt_embeds
        noise_pred == [e \in 1..Len(prompt_embeds) |-> Unet(prompt_embeds[e])]
        stepped == sh[1]
        callback_kwargs ==
            IF cb = <<>> THEN <<>>
            ELSE [key \in cb[1].inputs |->
                     IF key = "latents" THEN stepped
                     ELSE IF key = "prompt_embeds" THEN lp.prompt_embeds
                     ELSE lp.negative_prompt_embeds]
        callback_outputs ==
            IF cb = <<>> THEN <<>>
            ELSE [key \in cb[1].returns |-> CallbackValue(key, stepped, lp)]
    IN  [loop |-> IF scheduler = "scheduler" THEN "main" ELSE "inversion",
         i |-> i,
         t |-> t,
         scheduler |-> scheduler,
         shuffled |-> use_shuffling,
         randperm |-> IF use_shuffling
                      THEN <<[n |-> Len(sh[3]),
                              source |-> IF generator = <<>> THEN "global"
                                         ELSE "generator"]>>
                      ELSE <<>>,
         scale_calls |-> IF guess_cfg THEN 2 ELSE 1,
         step_kwargs |-> loc.extra_step_kwargs,
         latent_batch |-> Len(latent_model_input),
         latent_model_input |-> latent_model_input,
         control_batch |-> Len(control_model_input),
         controlnet_prompt_embeds |-> controlnet_prompt_embeds,
         controlnet_cond |-> sh[2],
         cond_scale |-> CondScale(loc.cscale, keep, args.multi),
         unet_prompt_embeds |-> prompt_embeds,
         unet_out |-> noise_pred,
         noise_pred |-> IF cfg THEN Guidance(noise_pred, args.gs)
                        ELSE noise_pred[1],
         events |-> (IF use_shuffling THEN <<"randperm", "_shuffle">> ELSE <<>>)
                    \o <<"scale_model_input", "controlnet", "unet", "step">>
                    \o (IF cb = <<>> THEN <<>> ELSE <<"callback_on_step_end">>),
         callback |-> IF cb = <<>> THEN <<>>
                      ELSE <<[i |-> i, t |-> t,
                              callback_kwargs |-> callback_kwargs,
                              callback_outputs |-> callback_outputs]>>,
         latents |-> IF cb = <<>> THEN stepped
                     ELSE CallbackPop(callback_outputs, "latents", stepped),
         prompt_embeds |->
             IF cb = <<>> THEN lp.prompt_embeds
             ELSE CallbackPop(callback_outputs, "prompt_embeds", lp.prompt_embeds),
         negative_prompt_embeds |->
             IF cb = <<>> THEN lp.negative_prompt_embeds
             ELSE CallbackPop(callback_outputs, "negative_prompt_embeds",
                              lp.negative_prompt_embeds)]

\* The calls one iteration adds: the scheduler the loop was given gets
\* the scale_model_input and step calls.
CountStep(c, r, sh) ==
    [c EXCEPT
        !.controlnet = @ + 1,
        !.unet = @ + 1,
        !.scale_model_input =
            @ + (IF r.scheduler = "scheduler" THEN r.scale_calls ELSE 0),
        !.scheduler_step = @ + (IF r.scheduler = "scheduler" THEN 1 ELSE 0),
        !.inverse_scale_model_input =
            @ + (IF r.scheduler = "inverse_scheduler" THEN r.scale_calls ELSE 0),
        !.inverse_step =
            @ + (IF r.scheduler = "inverse_scheduler" THEN 1 ELSE 0),
        !.randperm = @ + sh[4],
        !.shuffle = @ + sh[4],
        !.callback_on_step_end = @ + Len(r.callback)]

\* An inversion loop that is given the main scheduler.
InversionSchedulerMain == "scheduler"

\* Line 1648: scheduler=self.inverse_scheduler.
InversionScheduler == "inverse_scheduler"

\* The keyword parameters, among eta and generator, of the step function
\* of a scheduler of the pipeline.
StepAccepts(scheduler) ==
    IF scheduler = "scheduler" THEN args.step_accepts
    ELSE args.inverse_step_accepts

\* One iteration of the inversion loop (lines 1646-1663): the inverse
\* scheduler, no shuffling, no index table, the inversion callback.  The
\* step call of line 1177 gets the extra_step_kwargs made for
\* self.scheduler.step; a keyword the scheduler's step does not have as
\* a parameter is a TypeError, raised after the ControlNet and denoiser
\* calls of the iteration.
InversionStep ==
    /\ pc = "inversion"
    /\ step < Len(loc.inversion_timesteps)
    /\ \E sh \in {ShuffleStep(latents, inversion_control_video, FALSE,
                              loc.inversion_num_frames, <<>>, <<>>)} :
       \E r \in {DenoiseStep(InversionScheduler, step,
                             loc.inversion_timesteps[step + 1], loop, sh, FALSE,
                             loc.inversion_controlnet_keep[step + 1], args.icb)} :
           IF r.step_kwargs \subseteq StepAccepts(r.scheduler)
           THEN /\ latents' = r.latents
                /\ loop' = [prompt_embeds |-> r.prompt_embeds,
                            negative_prompt_embeds |-> r.negative_prompt_embeds]
                /\ inversion_control_video' = sh[2]
                /\ indices' = sh[3]
                /\ last' = r
                /\ calls' = CountStep(calls, r, sh)
                /\ generator' = Advance(generator, sh[4])
                /\ step' = step + 1
                /\ UNCHANGED <<pc, err>>
           ELSE /\ Raise("TypeError: step() got an unexpected keyword argument")
                /\ calls' = [CountStep(calls, r, sh) EXCEPT
                                 !.inverse_step = calls.inverse_step,
                                 !.scheduler_step = calls.scheduler_step,
                                 !.callback_on_step_end =
                                     calls.callback_on_step_end]
                /\ UNCHANGED <<latents, loop, inversion_control_video, indices,
                               last, generator, step>>
    /\ UNCHANGED <<args, loc, grids, control_grids, inversion_video,
                   control, fields, output>>

\* Lines 1665-1699, after the inversion loop: unless the inversion ran on
\* the grids, the inverted frames are decoded, packed into grids and
\* encoded again without noise; the post-processed frames are PIL images
\* only for output_type "pil" (image_grid reads images[0].size).  The
\* index table of the main loop is torch.arange(num_video_frames).
InversionEnd ==
    /\ pc = "inversion"
    /\ step = Len(loc.inversion_timesteps)
    /\ LET batches == Batches(loc.inversion_num_frames, args.vbs)
           decoded == Flatten(Chunks(latents, loc.inversion_num_frames, args.vbs))
           g == _convert_frames_to_grids(decoded, args.k)
           e == EncodeLatents(g, loc.num_grid_frames)
           noised == IF AddsNoise(is_inversion_mode) THEN e.done ELSE 0
       IN  IF args.ongrid
           THEN /\ UNCHANGED <<grids, latents, calls, generator, inversion_video>>
                /\ indices' = Arange(args.n)
                /\ step' = 0
                /\ pc' = "denoise"
                /\ err' = err
                /\ loop' = [prompt_embeds |-> loc.prompt_embeds,
                            negative_prompt_embeds |-> loc.negative_prompt_embeds]
           ELSE /\ inversion_video' = decoded
                /\ IF args.out # "pil"
                   THEN /\ Raise("TypeError: images[0].size")
                        /\ calls' = [calls EXCEPT !.vae_decode = @ + batches]
                        /\ UNCHANGED <<grids, latents, indices, step, generator,
                                       loop>>
                   ELSE /\ grids' = g
                        /\ calls' = [calls EXCEPT
                               !.vae_decode = @ + batches,
                               !.vae_encode = @ + e.encoded,
                               !.add_noise = @ + noised]
                        /\ generator' = Advance(generator, e.encoded + noised)
                        /\ IF e.raises
                           THEN /\ Raise("ValueError: cannot duplicate image")
                                /\ UNCHANGED <<latents, indices, step, loop>>
                           ELSE /\ latents' = e.latents
                                /\ indices' = Arange(args.n)
                                /\ step' = 0
                                /\ pc' = "denoise"
                                /\ err' = err
                                /\ loop' =
                                       [prompt_embeds |-> loc.prompt_embeds,
                                        negative_prompt_embeds |->
                                            loc.negative_prompt_embeds]
    /\ UNCHANGED <<args, loc, control_grids, inversion_control_video, control,
                   fields, last, output>>

\* One iteration of the main loop (lines 1700-1716): with use_shuffling a
\* permutation is drawn and the latents and the control tensors are
\* shuffled first.
MainStep ==
    /\ pc = "denoise"
    /\ step < Len(loc.timesteps)
    /\ \E rand_indices \in (IF args.shuf THEN randperm(args.n, generator)
                             ELSE {<<>>}) :
       IF args.shuf /\ _shuffle_raises(latents, control, args.multi, args.k)
       THEN /\ Raise("IndexError: current[index]")
            /\ calls' = [calls EXCEPT !.randperm = @ + 1, !.shuffle = @ + 1]
            /\ generator' = Advance(generator, 1)
            /\ UNCHANGED <<latents, loop, control, indices, last, step>>
       ELSE \E sh \in {ShuffleStep(latents, control, args.shuf, args.n,
                                   indices, rand_indices)} :
            \E r \in {DenoiseStep("scheduler", step, loc.timesteps[step + 1],
                                  loop, sh, args.shuf,
                                  loc.controlnet_keep[step + 1], args.cb)} :
                /\ latents' = r.latents
                /\ loop' = [prompt_embeds |-> r.prompt_embeds,
                            negative_prompt_embeds |-> r.negative_prompt_embeds]
                /\ control' = sh[2]
                /\ indices' = sh[3]
                /\ last' = r
                /\ calls' = CountStep(calls, r, sh)
                /\ generator' = Advance(generator, sh[4])
                /\ step' = step + 1
                /\ UNCHANGED <<pc, err>>
    /\ UNCHANGED <<args, loc, grids, control_grids, inversion_video,
                   inversion_control_video, fields, output>>

\* Line 1742: video = [shuffled_video[indices[i]] for i in range(n)].
Restore(shuffled_video, table, num_video_frames) ==
    [i \in 1..num_video_frames |-> shuffled_video[table[i] + 1]]

\* A call that decodes whatever the output type.
ReturnsLatentsNever(output_type) == FALSE

\* Line 1725: output_type == "latent".
ReturnsLatents(output_type) == output_type = "latent"

\* Lines 1728-1736: the latents that are decoded, in batches of
\* vae_batch_size.
Decoded == Flatten(Chunks(latents, loc.num_grid_frames, args.vbs))

\* Lines 1718-1747, after the main loop: the latents themselves for
\* output_type "latent"; otherwise the grids are decoded in batches and
\* split into frames, the first num_video_frames of them are kept and put
\* back in the original order. Only PIL images can be split: for the
\* output types "np" and "pt" the postprocessed grids are arrays and
\* tensors, and `w, h = image.size` (line 116) raises a TypeError.
Finish ==
    /\ pc = "denoise"
    /\ step = Len(loc.timesteps)
    /\ IF ReturnsLatents(args.out)
       THEN /\ output' = [frames |-> latents]
            /\ pc' = "done"
            /\ UNCHANGED <<err, calls>>
       ELSE /\ calls' = [calls EXCEPT
                   !.vae_decode = @ + Batches(loc.num_grid_frames, args.vbs)]
            /\ IF args.out # "pil"
               THEN /\ Raise("TypeError: w, h = image.size")
                    /\ output' = output
               ELSE IF \E g \in 1..Len(Decoded) :
                      image_split_raises(Decoded[g], args.k, args.k)
               THEN /\ Raise("ValueError: not divisible")
                    /\ output' = output
               ELSE LET shuffled_video ==
                            Slice(_grids_to_frames(Decoded, args.k), 0, args.n)
                    IN  /\ output' = [frames |->
                               Restore(shuffled_video, indices, args.n)]
                        /\ pc' = "done"
                        /\ err' = err
    /\ UNCHANGED <<loop, generator, args, loc, grids, control_grids, inversion_video,
                   inversion_control_video, latents, control, indices, step,
                   fields, last>>

\* image_split(image, rows, cols) called on its own (lines 115-134): the
\* tiles, or the ValueError of lines 117-118.
Split ==
    /\ pc = "split"
    /\ LET image == FrameOf(1, args.w, args.h)
       IN  IF image_split_raises(image, args.rows, args.cols)
           THEN /\ Raise("ValueError: not divisible")
                /\ output' = output
           ELSE /\ output' = [tiles |-> image_split(image, args.rows, args.cols)]
                /\ pc' = "split_done"
                /\ err' = err
    /\ UNCHANGED <<args, loc, grids, control_grids, inversion_video,
                   inversion_control_video, latents, control, indices, step,
                   fields, calls, last, generator, loop>>

NextSplit == Split

Next ==
    \/ Pack
    \/ CheckInputs
    \/ EncodePrompts
    \/ Prepare
    \/ PrepareLatents
    \/ InversionStep
    \/ InversionEnd
    \/ MainStep
    \/ Finish

\* ------------------------------------------------------------ families
\* The ControlNet configurations tried: one ControlNet, two ControlNets,
\* guess mode, and no guidance.
Single(a) == a
Double(a) ==
    [a EXCEPT !.multi = TRUE, !.nets = 2, !.cls = <<a.n, a.n>>,
              !.cscale = [kind |-> "list", v |-> <<<<4, 5>>, <<1, 2>>>>,
                          nested |-> FALSE]]
Guess(a) == [a EXCEPT !.guess = TRUE]
Unguided(a) == [a EXCEPT !.gs = <<1, 1>>]
Configs(a) == {Single(a), Double(a), Guess(a), Unguided(a), Guess(Double(a))}

\* A call with one ControlNet and inversion from a prompt: it goes
\* through every stage.
Inverting == [Base EXCEPT !.inv = "prompt"]

\* Videos of every length up to MaxFrames, and of two full grids, with
\* every grid size, with and without shuffling, for one step and for
\* MaxSteps steps. A shuffled video longer than MaxFullPerm frames comes
\* with a seeded generator.
Sized ==
    {[Base EXCEPT !.n = n, !.cls = <<n>>, !.k = k, !.steps = t, !.shuf = sh,
                  !.generator = IF sh /\ n > MaxFullPerm THEN <<0>> ELSE <<>>] :
        n \in 0..MaxFrames \cup {2 * kk * kk : kk \in 1..MaxGrid},
        k \in 1..MaxGrid, t \in {1, MaxSteps}, sh \in BOOLEAN}

\* The full grids among them, two steps or more.
FullGrids == {a \in Sized : a.shuf /\ a.steps = MaxSteps /\ a.n = 2 * a.k * a.k}

\* Calls with a seeded generator, with and without inversion.
SeededArgs ==
    {[a EXCEPT !.generator = <<s>>, !.inv = iv] :
        a \in {b \in Sized : b.shuf}, s \in 0..MaxSeed, iv \in {"none", "prompt"}}

\* A strength whose product with the number of steps is an integer in
\* exact arithmetic and falls just below it in floating point:
\* int(22 * (15 / 22)) is 14.
RoundedDown == [Base EXCEPT !.steps = 22, !.strength = <<15, 22>>, !.shuf = FALSE]

\* One step on a video one frame longer than MaxFullPerm, shuffled from
\* the global random state over grids of four.
TwoGrids ==
    {[Base EXCEPT !.n = MaxFullPerm + 1, !.cls = <<MaxFullPerm + 1>>,
                  !.steps = 1, !.out = o] : o \in {"pil", "latent"}}

\* Calls with several prompts, as a list or as embeddings, on videos of
\* every length up to MaxFrames, without inversion, with inversion on the frames and on
\* the grids, with and without guidance, returning frames or latents,
\* the autoencoder fed one image at a time or four; a shuffled video of
\* MaxFullPerm frames or more, and every video shuffled over several
\* steps, comes with a seeded generator.
PromptLists ==
    {[a EXCEPT !.prompt = "list", !.prompts = p, !.inv = m[1], !.ongrid = m[2],
               !.vbs = vb,
               !.generator = IF a.shuf /\ a.n >= MaxFullPerm THEN <<0>> ELSE <<>>] :
        a \in UNION {{b, Unguided(b)} :
                        b \in {c \in Sized : c.steps = 1 /\ c.n <= MaxFrames}},
        p \in 2..MaxPrompts,
        m \in {<<"none", FALSE>>, <<"prompt", FALSE>>, <<"prompt", TRUE>>},
        vb \in {1, Base.vbs}}
    \cup {[a EXCEPT !.prompt = "list", !.prompts = p, !.vbs = vb,
                    !.out = "latent"] :
            a \in {b \in Sized : b.steps = 1 /\ b.shuf /\ b.n <= MaxFrames},
            p \in 2..MaxPrompts,
            vb \in {1, Base.vbs}}
    \cup {[a EXCEPT !.prompt = "none", !.prompt_embeds = TRUE, !.prompts = p,
                    !.generator = IF a.shuf THEN <<0>> ELSE <<>>] :
            a \in {b \in Sized : b.steps = MaxSteps /\ b.k = MaxGrid},
            p \in 2..MaxPrompts}

\* Calls on pipelines whose scheduler is of order 1 or 2 and has as many
\* timesteps as num_inference_steps * order, or one more (order 1) or one
\* fewer (order 2), at every strength, with and without inversion.
Schedulers ==
    {[Base EXCEPT !.order = ox[1], !.extra_timesteps = ox[2], !.steps = t,
                  !.strength = st, !.inv = iv, !.shuf = FALSE] :
        ox \in {<<1, 0>>, <<1, 1>>, <<2, 0>>, <<2, -1>>},
        t \in 1..(MaxSteps + 1),
        st \in {<<0, 1>>, <<1, 2>>, <<4, 5>>, <<1, 1>>},
        iv \in {"none", "prompt"}}

\* Calls asking for arrays or tensors.
ArrayArgs == {[Base EXCEPT !.out = o, !.steps = 1] : o \in {"np", "pt"}}

OrderArgs ==
    Sized
    \cup {RoundedDown}
    \cup TwoGrids
    \cup PromptLists
    \cup ArrayArgs
    \cup UNION {Configs(a) : a \in {b \in Sized : b.steps = 1} \cup FullGrids}
    \cup {[a EXCEPT !.inv = "prompt", !.ongrid = g, !.out = o, !.invsteps = ti] :
            a \in FullGrids \cup {b \in Sized : b.shuf /\ b.steps = 1},
            g \in BOOLEAN, o \in {"pil", "latent"}, ti \in {1, MaxSteps}}
    \cup {[a EXCEPT !.out = "latent"] : a \in {b \in Sized : b.shuf /\ b.steps = 1}}
    \cup {[a EXCEPT !.w = 1, !.h = 2] : a \in FullGrids}
    \cup SeededArgs
    \cup {[Base EXCEPT !.strength = st, !.invsteps = ti, !.steps = t,
                       !.inv = iv] :
            st \in {<<0, 1>>, <<1, 2>>, <<4, 5>>}, ti \in 0..1,
            t \in 1..(MaxSteps + 1), iv \in {"none", "prompt"}}
    \cup Schedulers

\* The window bounds tried: the multiples of 1/FracDen from just below 0
\* to just above 1, and 1/5 and 4/5.
Bounds == {<<m, FracDen>> : m \in (-1)..(FracDen + 1)} \cup {<<1, 5>>, <<4, 5>>}
EdgeBounds == {<<-1, FracDen>>, <<0, 1>>, <<1, 2>>, <<1, 1>>, <<FracDen + 1, FracDen>>}

\* Window arguments: a float or a list of one or two values.
WindowArgs(S) ==
    {Scalar(r) : r \in S} \cup {List(<<r>>) : r \in S}
    \cup {List(<<r, q>>) : r \in S, q \in S}

\* Calls that check_inputs must judge: control videos of every length,
\* windows of every shape, and the other arguments it looks at.
ValidationArgs ==
    {[Base EXCEPT !.n = n, !.cls = cl, !.multi = m, !.nets = Len(cl),
                  !.k = 1, !.steps = 1, !.shuf = sh] :
        n \in 0..3, cl \in {<<a>> : a \in 0..3} \cup {<<a, b>> : a \in 0..3, b \in 0..3},
        m \in BOOLEAN, sh \in BOOLEAN}
    \cup {[a EXCEPT !.cgs = s, !.cge = e, !.k = 1, !.steps = 1] :
            a \in {[Base EXCEPT !.n = 2, !.cls = <<2>>],
                   Double([Base EXCEPT !.n = 2, !.cls = <<2>>])},
            s \in WindowArgs(EdgeBounds), e \in WindowArgs(EdgeBounds)}
    \cup {[Base EXCEPT !.prompt = p, !.prompt_embeds = pe, !.negative = ng,
                       !.negative_type = nt[1], !.negatives = nt[2],
                       !.callback_steps = cb, !.inversion_callback_steps = icb,
                       !.tensor_inputs_ok = ti, !.k = 1, !.steps = 1] :
            p \in {"str", "list", "none", "other"}, pe \in BOOLEAN,
            ng \in {"none", "prompt", "embeds", "both", "shape"},
            nt \in {<<"str", 1>>, <<"list", 1>>, <<"list", 2>>},
            cb \in {<<>>, <<0>>, <<1>>}, icb \in {<<>>, <<0>>}, ti \in BOOLEAN}
    \cup {[Unguided(Base) EXCEPT !.prompt = "list", !.negative = "prompt",
                                 !.k = 1, !.steps = 1]}
    \cup {[a EXCEPT !.prompt = "none", !.prompt_embeds = TRUE, !.prompts = p,
                    !.negative = ng, !.negative_type = nt[1],
                    !.negatives = nt[2], !.inv = iv, !.k = 1, !.steps = 1] :
            a \in {Base, Unguided(Base)}, p \in 1..MaxPrompts,
            ng \in {"none", "prompt", "embeds", "shape"},
            nt \in {<<"str", 1>>, <<"list", 2>>},
            iv \in {"none", "prompt"}}
    \cup {[a EXCEPT !.negative = "shape", !.inv = iv, !.k = 1, !.steps = 1] :
            a \in {Base, Unguided(Base)}, iv \in {"none", "prompt"}}
    \cup {[a EXCEPT !.cscale = cs, !.inversion_tensor_inputs_ok = ti] :
            a \in {Base, Double(Base)},
            cs \in {[kind |-> "float", v |-> <<<<4, 5>>>>, nested |-> FALSE],
                    [kind |-> "list", v |-> <<<<4, 5>>>>, nested |-> FALSE],
                    [kind |-> "list", v |-> <<<<4, 5>>, <<1, 2>>>>, nested |-> FALSE],
                    [kind |-> "list", v |-> <<<<4, 5>>, <<1, 2>>>>, nested |-> TRUE]},
            ti \in BOOLEAN}
    \cup {[Base EXCEPT !.n = 8, !.cls = <<5>>], Inverting}

\* Calls with every valid window over every number of steps, with and
\* without inversion.
KeepArgs ==
    {[Base EXCEPT !.n = 1, !.cls = <<1>>, !.k = 1, !.shuf = FALSE,
                  !.cgs = Scalar(s), !.cge = Scalar(e), !.steps = t,
                  !.invsteps = ti, !.inv = iv] :
        s \in Bounds, e \in Bounds, t \in 1..MaxKeepSteps,
        ti \in {1, MaxSteps + 1}, iv \in {"none", "prompt"}}
    \cup {[Double(Base) EXCEPT !.cgs = List(<<s, q>>), !.cge = List(<<e, r>>),
                               !.steps = t, !.ongrid = TRUE, !.inv = iv] :
            s \in EdgeBounds, e \in EdgeBounds, q \in EdgeBounds, r \in EdgeBounds,
            t \in 1..(MaxSteps + 1), iv \in {"none", "prompt"}}

\* Calls with every guidance scale around 1 and every pair of estimates
\* of the denoiser.
GuidanceArgs ==
    UNION {Configs([Base EXCEPT !.n = 2, !.cls = <<2>>, !.k = 1, !.gs = g,
                                !.u = u, !.c = c, !.steps = t, !.inv = iv,
                                !.negative = ng]) :
        g \in {<<0, 1>>, <<1, 2>>, <<1, 1>>, <<3, 2>>, <<2, 1>>, <<15, 2>>},
        u \in (-1)..MaxNoise, c \in (-1)..MaxNoise, t \in 1..MaxSteps,
        iv \in {"none", "prompt"}, ng \in {"none", "prompt", "embeds"}}

\* The callbacks tried: every list of tensor inputs and every set of
\* returned keys.
TensorNames == {"latents", "prompt_embeds", "negative_prompt_embeds"}
Callbacks ==
    {<<[inputs |-> i, returns |-> r]>> : i \in SUBSET TensorNames,
                                         r \in SUBSET TensorNames}

\* Calls with a callback_on_step_end, with and without guidance,
\* shuffling and inversion.
CallbackArgs ==
    {[a EXCEPT !.n = 2, !.cls = <<2>>, !.k = 1, !.steps = MaxSteps,
               !.cb = cb, !.shuf = sh, !.out = o] :
        a \in {Base, Unguided(Base)}, cb \in Callbacks \cup {<<>>},
        sh \in BOOLEAN, o \in {"pil", "latent"}}
    \cup {[a EXCEPT !.n = 2, !.cls = <<2>>, !.k = 1, !.steps = MaxSteps,
                    !.invsteps = MaxSteps, !.inv = "prompt", !.ongrid = TRUE,
                    !.icb = icb, !.cb = cb, !.shuf = FALSE] :
            a \in {Base, Unguided(Base)}, icb \in Callbacks,
            cb \in {<<>>, <<[inputs |-> {"latents"}, returns |-> {"latents"}]>>}}

\* ------------------------------------------------------ specifications
Init == InitWith(OrderArgs)
Spec == Init /\ [][Next]_vars

InitValidation == InitWith(ValidationArgs)
SpecValidation == InitValidation /\ [][Next]_vars

InitKeep == InitWith(KeepArgs)
SpecKeep == InitKeep /\ [][Next]_vars

InitCallback == InitWith(CallbackArgs)
SpecCallback == InitCallback /\ [][Next]_vars

\* Images of every size up to MaxSide and every number of rows and
\* columns up to MaxGrid + 1.
SplitArgs ==
    [w : 1..MaxSide, h : 1..MaxSide, rows : 1..(MaxGrid + 1),
     cols : 1..(MaxGrid + 1), generator : {<<>>}]

InitSplit == InitAt(SplitArgs, "split")
SpecSplit == InitSplit /\ [][NextSplit]_vars

\* Calls on pipelines whose two schedulers have every combination of the
\* step parameters eta and generator, with and without inversion.
StepArgs ==
    {[a EXCEPT !.n = 2, !.cls = <<2>>, !.k = 1, !.step_accepts = sa,
               !.inverse_step_accepts = ia, !.inv = iv, !.ongrid = g,
               !.invsteps = MaxSteps] :
        a \in {Base, Unguided(Base)}, sa \in SUBSET {"eta", "generator"},
        ia \in SUBSET {"eta", "generator"}, iv \in {"none", "prompt"},
        g \in BOOLEAN}

InitStep == InitWith(StepArgs)
SpecStep == InitStep /\ [][Next]_vars

InitGuidance == InitWith(GuidanceArgs)
SpecGuidance == InitGuidance /\ [][Next]_vars

\* ------------------------------------------------- what the claims use
\* The frame in flattened slot s (0-based) of a batch of grids t: grid
\* s \div k^2, row (s % k^2) \div k, column s % k.
SlotAt(t, s, k) ==
    LET grid == t[(s \div (k * k)) + 1]
        row == (s % (k * k)) \div k
        col == s % k
        th == Height(grid) \div k
        tw == Width(grid) \div k
    IN  [y \in 1..th |-> [x \in 1..tw |-> grid[row * th + y][col * tw + x]]]

\* Original frame i (0-based) of the video.
Orig(i) == [y \in 1..args.h |-> [x \in 1..args.w |-> <<i + 1, y, x>>]]

\* The control tensors of the main loop, as a set.
ControlTensors == IF args.multi THEN {control[j] : j \in 1..Len(control)} ELSE {control}

GuidanceOn == args.gs[1] > args.gs[2]

\* ---------------------------------------------------------------- C1
\* C1: with shuffling and a frame count that is a multiple of
\* grid_size^2, after any number of main-loop steps the call returns
\* num_frames frames, output frame i is the frame found in slot
\* indices[i] of the final grids, and that frame is original frame i.
C1_RestoredOrder ==
    (pc = "done" /\ args.shuf /\ args.out = "pil"
        /\ args.n % (args.k * args.k) = 0)
    => /\ Len(output.frames) = args.n
       /\ \A i \in 0..(args.n - 1) :
            /\ output.frames[i + 1] = SlotAt(latents, indices[i + 1], args.k)
            /\ output.frames[i + 1] = Orig(i)

\* ---------------------------------------------------------------- C2
\* C2: with shuffling, after every step of the main loop the index table
\* is a bijection on [0, num_frames) and slot table[i] of the latent
\* grids holds original frame i, so that no frame is lost.
C2_TableTracksFrames ==
    (pc \in {"denoise", "done"} /\ args.shuf /\ step >= 1)
    => /\ Len(indices) = args.n
       /\ {indices[i] : i \in 1..args.n} = 0..(args.n - 1)
       /\ \A i \in 0..(args.n - 1) :
            /\ SlotAt(latents, indices[i + 1], args.k) = Orig(i)
            /\ \E s \in 0..(args.k * args.k * Len(latents) - 1) :
                 SlotAt(latents, s, args.k) = Orig(i)

\* ---------------------------------------------------------------- C3
\* C3: with shuffling, after every step every control tensor holds in
\* every slot the control slice of the frame whose latent slice is in
\* that slot, it is what the step passed to the ControlNet, and when
\* guidance doubles the control batch its second half has the same order.
C3_ControlFollowsLatents ==
    (pc \in {"denoise", "done"} /\ args.shuf /\ step >= 1)
    => LET total == args.k * args.k * Len(latents)
           doubled == GuidanceOn /\ ~args.guess
       IN  /\ \A ct \in ControlTensors :
                /\ Len(ct) = (IF doubled THEN 2 ELSE 1) * Len(latents)
                /\ \A s \in 0..(total - 1) :
                     /\ SlotAt(ct, s, args.k) = SlotAt(latents, s, args.k)
                     /\ doubled =>
                          SlotAt(ct, total + s, args.k) = SlotAt(latents, s, args.k)
           /\ (last.loop = "main") => last.controlnet_cond = control

\* ---------------------------------------------------------------- C4
\* The variable grids holds what packing the video made: line 1680
\* rebinds it to the packing of the decoded inverted frames when the
\* inversion ran on the frames.
GridsOfPacking ==
    (pc \in {"denoise", "done", "error"}) => (args.inv = "none" \/ args.ongrid)

\* C4: for a frame count that is a multiple of grid_size^2, splitting the
\* grids that packing made gives back the frames, as many and in the
\* same order; cell number s of the grids, counted row by row and grid
\* after grid, is frame s.
C4_GridRoundTrip ==
    (/\ pc # "start" /\ GridsOfPacking
     /\ args.n > 0 /\ args.n % (args.k * args.k) = 0)
    => /\ Len(_grids_to_frames(grids, args.k)) = args.n
       /\ \A i \in 0..(args.n - 1) :
            /\ _grids_to_frames(grids, args.k)[i + 1] = Orig(i)
            /\ SlotAt(grids, i, args.k) = Orig(i)
       /\ \A j \in 1..Len(control_grids) :
            Len(_grids_to_frames(control_grids[j], args.k)) = args.cls[j]

\* Eight frames packed into two 2 x 2 grids.
C4_Witness ==
    /\ pc = "packed" /\ args.k = 2 /\ args.n = 8
    /\ Len(grids) = 2
    /\ _grids_to_frames(grids, 2)[7] = Orig(6)

\* ---------------------------------------------------------------- C5
\* The weight the claim gives ControlNet window (s, e) at step i of total
\* steps: 0 if i / total < s or (i + 1) / total > e, else 1.
ExpectedKeep(i, total, s, e) ==
    IF i * s[2] < s[1] * total \/ (i + 1) * e[2] > e[1] * total THEN 0 ELSE 1

\* The keep weight of ControlNet j at step i (0-based) of the main loop.
KeepOf(i, j) ==
    IF args.multi THEN loc.controlnet_keep[i + 1][j] ELSE loc.controlnet_keep[i + 1]

\* C5: the keep weight of ControlNet j at main-loop step i of N is 0 if
\* i / N < start_j or (i + 1) / N > end_j and 1 otherwise, and it is the
\* factor of the conditioning scale the step passes to the ControlNet;
\* for the window (0.2, 0.8) and N = 10 the weights are 0 at steps
\* 0, 1, 8, 9 and 1 at steps 2 to 7.
C5_KeepWeights ==
    (pc \in {"prepared", "inversion", "denoise", "done"})
    => LET total == Len(loc.timesteps)
           nets == IF args.multi THEN args.nets ELSE 1
       IN  /\ Len(loc.controlnet_keep) = total
           /\ \A i \in 0..(total - 1) : \A j \in 1..nets :
                /\ KeepOf(i, j) \in {0, 1}
                /\ KeepOf(i, j) =
                       ExpectedKeep(i, total, loc.start[j], loc.end[j])
           /\ (total = 10 /\ loc.start[1] \in {<<1, 5>>, <<2, 10>>}
                   /\ loc.end[1] \in {<<4, 5>>, <<8, 10>>})
              => [i \in 1..10 |-> KeepOf(i - 1, 1)] = <<0, 0, 1, 1, 1, 1, 1, 1, 0, 0>>
           /\ (last.loop = "main" /\ ~args.multi)
              => last.cond_scale[1] * loc.cscale.v[1][2] =
                     last.cond_scale[2] * loc.cscale.v[1][1]
                     * ExpectedKeep(last.i, total, loc.start[1], loc.end[1])
           /\ (last.loop = "main" /\ args.multi)
              => \A j \in 1..nets :
                     last.cond_scale[j][1] * loc.cscale.v[j][2] =
                         last.cond_scale[j][2] * loc.cscale.v[j][1]
                         * ExpectedKeep(last.i, total, loc.start[j], loc.end[j])

\* The claim's example at step 8, the first step after the window.
C5_Witness ==
    /\ pc = "denoise" /\ Len(loc.timesteps) = 10
    /\ loc.start = <<<<1, 5>>>> /\ loc.end = <<<<4, 5>>>>
    /\ last.loop = "main" /\ last.i = 8
    /\ loc.controlnet_keep = <<0, 0, 1, 1, 1, 1, 1, 1, 0, 0>>
    /\ last.cond_scale[1] = 0

\* ---------------------------------------------------------------- C6
\* C6: when guidance is enabled the denoiser gets the unconditional
\* embeddings in the first half and the conditional ones in the second,
\* and the estimate of the step is u + g * (c - u); at g = 1.0 the
\* step's estimate is c.
C6_GuidanceFormula ==
    (last.loop # "none")
    => LET g == args.gs
           np == last.noise_pred
       IN  /\ GuidanceOn
              => /\ last.unet_prompt_embeds = <<"neg", "pos">>
                 /\ last.unet_out = <<<<args.u, 1>>, <<args.c, 1>>>>
                 /\ np[1] * g[2] =
                        np[2] * (g[2] * args.u + g[1] * (args.c - args.u))
           /\ (g[1] = g[2]) => np[1] = np[2] * args.c

\* Guidance scale 7.5 with u = -1 and c = 1: the estimate is 14.
C6_Witness ==
    /\ last.loop = "main" /\ args.gs = <<15, 2>>
    /\ args.u = -1 /\ args.c = 1
    /\ last.noise_pred[1] = 14 * last.noise_pred[2]

\* ---------------------------------------------------------------- C7
\* C7 as stated: for guidance_scale = 0.0 the estimate the loop uses is
\* the unconditional estimate u.
C7_ZeroScaleGivesUnconditional ==
    (last.loop # "none" /\ args.gs[1] = 0)
    => last.noise_pred[1] = last.noise_pred[2] * args.u

\* C7 amended: for guidance_scale = 0.0 guidance is disabled, the
\* denoiser is given the conditional embeddings only, and the estimate
\* the loop uses is the conditional estimate c.
C7_ZeroScaleGivesConditional ==
    (last.loop # "none" /\ args.gs[1] = 0)
    => /\ last.unet_prompt_embeds = <<"pos">>
       /\ last.noise_pred[1] = last.noise_pred[2] * args.c

\* A step at guidance scale 0 whose estimates differ.
C7_Witness ==
    /\ last.loop = "main" /\ args.gs[1] = 0
    /\ args.u = -1 /\ args.c = 1
    /\ last.noise_pred = <<1, 1>>

\* ---------------------------------------------------------------- C8
\* C8: for guidance_scale <= 1.0 guidance is off for the whole call: no
\* negative embeddings are encoded or concatenated, no batch is doubled,
\* and the estimate is the conditional one; for guidance_scale > 1 the
\* denoiser batch is doubled at every step.
C8_GuidanceThreshold ==
    LET g == args.gs
        off == g[1] <= g[2]
        positive_calls ==
            (IF args.prompt_embeds THEN 0 ELSE 1)
            + (IF args.inv = "prompt" THEN 1 ELSE 0)
    IN  /\ (off /\ pc \notin {"start", "packed", "checked", "error"})
           => /\ loc.prompt_embeds = <<"pos">>
              /\ args.inv # "none" => loc.inversion_prompt_embeds = <<"pos">>
              /\ calls.text_encoder = positive_calls
        /\ (off /\ pc \in {"prepared", "inversion", "denoise", "done"})
           => \A ct \in ControlTensors : Len(ct) = Len(grids)
        /\ (off /\ last.loop # "none")
           => /\ last.latent_batch = Len(latents)
              /\ last.control_batch = Len(latents)
              /\ last.unet_prompt_embeds = <<"pos">>
              /\ last.controlnet_prompt_embeds = <<"pos">>
              /\ last.unet_out = <<<<args.c, 1>>>>
              /\ last.noise_pred = <<args.c, 1>>
        /\ (~off /\ last.loop # "none")
           => /\ last.latent_batch = 2 * Len(latents)
              /\ Len(last.unet_prompt_embeds) = 2

\* The second step of a call at guidance scale exactly 1 with a negative
\* prompt given.
C8_Witness ==
    /\ last.loop = "main" /\ step = 2
    /\ args.gs = <<1, 1>> /\ args.negative = "prompt"
    /\ args.u # args.c
    /\ last.latent_batch = Len(latents)
    /\ calls.unet >= 2

\* ---------------------------------------------------------------- C9
\* C9: when a control video is not as long as the video the call ends
\* with the validation error of check_inputs for the lengths, and before
\* that error no collaborator is invoked: no call to the text encoder,
\* the autoencoder, a ControlNet, the denoiser or a scheduler.
C9_LengthMismatchRejected ==
    (\E j \in 1..Len(args.cls) : args.cls[j] # args.n)
    => /\ pc \in {"start", "packed", "error"}
       /\ calls = NoCalls
       /\ last = NoStep /\ latents = <<>> /\ output = <<>>
       /\ (pc = "error") => err = "ValueError: video and control_video length"

\* --------------------------------------------------------------- C10
\* A window with 0 <= start < end <= 1.
GoodWindow(s, e) ==
    /\ 0 <= s[1] /\ s[1] * e[2] < e[1] * s[2] /\ e[1] <= e[2]

\* C10: once check_inputs has accepted the call every window of every
\* ControlNet has 0 <= start < end <= 1 and holds the values that were
\* passed; a call with a window outside that is rejected before any
\* collaborator is invoked.
C10_WindowsValid ==
    /\ (pc \notin {"start", "packed", "error"})
       => /\ Len(loc.start) = Len(loc.end)
          /\ \A j \in 1..Len(loc.start) :
               /\ GoodWindow(loc.start[j], loc.end[j])
               /\ \E q \in 1..Len(args.cgs.v) : loc.start[j] = args.cgs.v[q]
               /\ \E q \in 1..Len(args.cge.v) : loc.end[j] = args.cge.v[q]
    /\ (pc = "error" /\ err \in {"ValueError: start >= end",
                                 "ValueError: start < 0",
                                 "ValueError: end > 1"})
       => /\ calls = NoCalls /\ last = NoStep /\ step = 0
          /\ \E j \in 1..Min(Len(loc.start), Len(loc.end)) :
               ~GoodWindow(loc.start[j], loc.end[j])

\* Two ControlNets, the first window valid and the second ending past 1.
C10_Witness ==
    /\ pc = "error" /\ err = "ValueError: end > 1"
    /\ args.multi /\ Len(loc.start) = 2
    /\ GoodWindow(loc.start[1], loc.end[1])
    /\ ~GoodWindow(loc.start[2], loc.end[2])
    /\ calls = NoCalls

\* --------------------------------------------------------------- C11
\* With use_shuffling = False no call of _shuffle or of randperm is
\* counted, the index table is the one the loop was given and the
\* control tensors are the prepared ones.
C11_NothingShuffled ==
    (~args.shuf /\ pc \in {"denoise", "done"})
    => /\ calls.shuffle = 0 /\ calls.randperm = 0
       /\ indices = [i \in 1..args.n |-> i - 1]
       /\ last.loop = "main" => ~last.shuffled
       /\ control = PrepareControl(control_grids,
                                   do_classifier_free_guidance(fields),
                                   loc.guess_mode)

\* With use_shuffling = False a step of the main loop leaves every slot
\* of the latents with the frame it held, and the table, the control
\* tensors and the generator as they were.
C11_StepMovesNothing ==
    (~args.shuf /\ pc = "denoise" /\ step' = step + 1)
    => /\ Len(latents') = Len(latents)
       /\ \A s \in 0..(args.k * args.k * Len(latents) - 1) :
            SlotAt(latents', s, args.k) = SlotAt(latents, s, args.k)
       /\ indices' = indices
       /\ control' = control
       /\ generator' = generator

\* C11: with use_shuffling = False no step of the loop calls _shuffle or
\* draws a permutation, the index table stays the one passed in, the
\* control tensors stay the prepared ones, and every frame is in the
\* same slot before and after every step of the loop.
C11_NoShuffleNoMove == [](C11_NothingShuffled) /\ [][C11_StepMovesNothing]_vars

\* Two steps without shuffling on a video of two 2 x 2 grids.
C11_Witness ==
    /\ ~args.shuf /\ pc = "denoise" /\ step = 2
    /\ args.k = 2 /\ args.n = 8
    /\ last.loop = "main" /\ calls.unet = 2
    /\ indices = <<0, 1, 2, 3, 4, 5, 6, 7>>

\* --------------------------------------------------------------- C12
\* With grid_size = 1 every grid is its frame and splitting the grids
\* changes nothing.
C12_PackIsIdentity ==
    (args.k = 1 /\ pc \notin {"start", "error"} /\ GridsOfPacking)
    => /\ Len(grids) = args.n
       /\ \A i \in 1..args.n : grids[i] = Orig(i - 1)
       /\ _grids_to_frames(grids, 1) = grids

\* With grid_size = 1 a main-loop step with shuffling makes batch item
\* rand_indices[i] the previous item indices[i], whole.
C12_StepPermutesBatch ==
    (args.k = 1 /\ args.shuf /\ pc = "denoise" /\ step' = step + 1)
    => /\ Len(latents') = Len(latents)
       /\ Len(indices') = args.n
       /\ \A i \in 1..args.n :
            latents'[indices'[i] + 1] = latents[indices[i] + 1]

\* C12: with grid_size = 1 packing makes one grid per frame, equal to
\* the frame, unpacking returns every grid unchanged, and one shuffle
\* step is a permutation of the batch of per-frame latents with no
\* change inside an item.
C12_GridSizeOne == [](C12_PackIsIdentity) /\ [][C12_StepPermutesBatch]_vars

\* Three frames, two shuffles, the table a 3-cycle.
C12_Witness ==
    /\ args.k = 1 /\ args.shuf /\ pc = "denoise" /\ step = 2
    /\ args.n = 3 /\ indices = <<2, 0, 1>>
    /\ latents[3] = Orig(0) /\ latents[1] = Orig(1)

\* --------------------------------------------------------------- C13
\* A main-loop step of a call with a seeded generator and shuffling: the
\* permutation, the table and the slot of every frame after the step are
\* functions of the state before it.
C13_StepIsFunction ==
    (args.generator # <<>> /\ args.shuf /\ pc = "denoise" /\ step' = step + 1)
    => LET p == Unrank(args.generator[1] * 7 + generator.draws * 5 + 3,
                       [i \in 1..args.n |-> i - 1])
       IN  /\ indices' = p
           /\ generator'.seed = generator.seed
           /\ generator'.draws = generator.draws + 1
           /\ \A i \in 1..args.n :
                SlotAt(latents', p[i], args.k) = SlotAt(latents, indices[i], args.k)
           /\ \A s \in 0..(args.k * args.k * Len(latents) - 1) :
                (\A i \in 1..args.n : p[i] # s)
                => SlotAt(latents', s, args.k) = SlotAt(latents, s, args.k)

\* C13: two runs of the loop with the same inputs, deterministic
\* collaborators and generators seeded alike draw the same permutations
\* and have the same latents after every step and the same final table:
\* the loop starts from the identity table and the generator state the
\* seed fixes, and every step is a function of the state before it.
C13_SeededRunsAgree ==
    /\ []((args.generator # <<>> /\ pc = "denoise" /\ step = 0)
          => /\ indices = [i \in 1..args.n |-> i - 1]
             /\ generator.seed = args.generator[1]
             /\ generator.draws = calls.vae_encode + calls.add_noise)
    /\ [][C13_StepIsFunction]_vars

\* The second step of a seeded run on two 2 x 2 grids.
C13_Witness ==
    /\ args.generator = <<1>> /\ args.shuf /\ pc = "denoise" /\ step = 2
    /\ args.k = 2 /\ args.n = 8 /\ args.inv = "none"
    /\ generator.draws = 4
    /\ calls.randperm = 2
    /\ indices # [i \in 1..8 |-> i - 1]

\* --------------------------------------------------------------- C14
\* The callback_on_step_end of the loop that ran the last iteration.
LastCallback == IF last.loop = "main" THEN args.cb ELSE args.icb

\* The last iteration is the one the current loop just finished.
InLoopAfterStep ==
    /\ step >= 1
    /\ \/ pc = "inversion" /\ last.loop = "inversion"
       \/ pc \in {"denoise", "done"} /\ last.loop = "main"

\* After an iteration of a loop with a callback: one call, after the
\* scheduler step, with i, t and the post-step values of the tensor
\* inputs; the loop holds what the callback returned and, for a key it
\* did not return, what the iteration had.
C14_CallbackPerStep ==
    (InLoopAfterStep /\ LastCallback # <<>>)
    => LET cb == LastCallback[1]
           call == last.callback[1]
           n == Len(last.events)
           stepped == SubSeq(last.latent_model_input, 1, Len(latents))
       IN  /\ Len(last.callback) = 1
           /\ call.i = last.i /\ call.i = step - 1
           /\ call.t = last.t
           /\ call.t = (IF last.loop = "main" THEN loc.timesteps
                        ELSE loc.inversion_timesteps)[step]
           /\ last.events[n] = "callback_on_step_end"
           /\ last.events[n - 1] = "step"
           /\ Cardinality({e \in 1..n : last.events[e] = "callback_on_step_end"}) = 1
           /\ DOMAIN call.callback_kwargs = cb.inputs
           /\ "latents" \in cb.inputs => call.callback_kwargs["latents"] = stepped
           /\ "prompt_embeds" \in cb.inputs
              => call.callback_kwargs["prompt_embeds"] = last.unet_prompt_embeds
           /\ DOMAIN call.callback_outputs = cb.returns
           /\ latents = IF "latents" \in cb.returns
                        THEN call.callback_outputs["latents"] ELSE stepped
           /\ loop.prompt_embeds =
                  IF "prompt_embeds" \in cb.returns
                  THEN call.callback_outputs["prompt_embeds"]
                  ELSE last.unet_prompt_embeds
           /\ "negative_prompt_embeds" \in cb.returns
              => loop.negative_prompt_embeds =
                     call.callback_outputs["negative_prompt_embeds"]
           /\ ("negative_prompt_embeds" \notin cb.returns /\ step = 1)
              => loop.negative_prompt_embeds =
                     (IF last.loop = "main" THEN loc.negative_prompt_embeds
                      ELSE loc.negative_inversion_prompt_embeds)
           /\ (pc = "done" /\ args.out = "latent") => output.frames = latents

\* The callbacks are called once per iteration and only when given.
C14_CallbackCount ==
    /\ (pc = "inversion" /\ step >= 1)
       => calls.callback_on_step_end = (IF args.icb = <<>> THEN 0 ELSE step)
    /\ (pc \in {"denoise", "done"})
       => calls.callback_on_step_end =
              (IF args.cb = <<>> THEN 0 ELSE step)
              + (IF args.icb = <<>> \/ args.inv = "none" THEN 0
                 ELSE Len(loc.inversion_timesteps))
    /\ (last.loop # "none" /\ LastCallback = <<>>) => last.callback = <<>>

\* An iteration without shuffling gives the denoiser the latents and the
\* prompt embeddings the loop held, and the next callback the negative
\* embeddings it held.
C14_NextIterationUses ==
    (pc \in {"inversion", "denoise"} /\ step' = step + 1 /\ step >= 1
        /\ (pc = "inversion" \/ ~args.shuf))
    => /\ last'.unet_prompt_embeds = loop.prompt_embeds
       /\ SubSeq(last'.latent_model_input, 1, Len(latents)) = latents
       /\ (last'.callback # <<>>
             /\ "negative_prompt_embeds" \in DOMAIN last'.callback[1].callback_kwargs)
          => last'.callback[1].callback_kwargs["negative_prompt_embeds"]
                 = loop.negative_prompt_embeds

\* C14: a callback_on_step_end that is given is invoked exactly once per
\* loop iteration, in step order, after the iteration's scheduler step,
\* with i, t and the post-step latents (the tensor inputs named); what
\* it returns replaces the loop's latents, prompt_embeds and
\* negative_prompt_embeds, is used by the next iteration and, at the last
\* step, is the final latents; a key it does not return leaves the
\* loop's value unchanged.
C14_Callback ==
    /\ [](C14_CallbackPerStep /\ C14_CallbackCount)
    /\ [][C14_NextIterationUses]_vars

\* The second iteration of a main loop whose callback gets the latents
\* and returns new latents and prompt embeddings.
C14_Witness ==
    /\ pc = "denoise" /\ step = 2 /\ last.loop = "main"
    /\ args.cb = <<[inputs |-> {"latents"},
                    returns |-> {"latents", "prompt_embeds"}]>>
    /\ last.unet_prompt_embeds = <<"callback", "callback">>
    /\ loop.negative_prompt_embeds = <<"neg">>
    /\ calls.callback_on_step_end = 2
    /\ latents[1][1][1][1] > 200

\* --------------------------------------------------------------- C15
\* check_inputs has run and accepted the call.
ValidationPassed ==
    \/ pc \in {"checked", "encoded", "prepared", "inversion", "denoise", "done"}
    \/ pc = "error" /\ err \in {"ZeroDivisionError: i / len(timesteps)",
                                "TypeError: images[0].size",
                                "TypeError: step() got an unexpected keyword argument",
                                "TypeError: w, h = image.size",
                                "ValueError: cannot duplicate image",
                                "TypeError: negative_prompt type",
                                "ValueError: negative_prompt batch size",
                                "RuntimeError: negative_prompt_embeds.view",
                                "RuntimeError: torch.cat([negative_prompt_embeds, prompt_embeds])",
                                "IndexError: current[index]",
                                "ValueError: not divisible"}

\* C15 as stated, its first two stages: the video and the control videos
\* are packed into grids only after the input validation.
C15_ValidationBeforePacking ==
    (grids # <<>> \/ control_grids # <<>>) => ValidationPassed

\* The stages in the order of the code: packing, validation, then the
\* collaborators' calls; the inversion loop complete before the main
\* loop, the main loop complete before the frames are returned; the main
\* loop starts from the identity table.
C15_StageOrder ==
    /\ (pc \notin {"start", "error"}) => (grids # <<>> /\ control_grids # <<>>)
    /\ ~ValidationPassed => (calls = NoCalls /\ last = NoStep /\ output = <<>>)
    /\ (pc \in {"checked", "encoded", "prepared"})
       => (last = NoStep /\ calls.unet = 0 /\ output = <<>>)
    /\ (pc = "inversion")
       => /\ args.inv # "none"
          /\ calls.inverse_step = step /\ calls.unet = step
          /\ calls.scheduler_step = 0 /\ calls.randperm = 0
          /\ output = <<>>
    /\ (pc \in {"denoise", "done"})
       => /\ calls.inverse_step =
                 (IF args.inv = "none" THEN 0 ELSE Len(loc.inversion_timesteps))
          /\ calls.scheduler_step = step
          /\ calls.unet = calls.inverse_step + step
    /\ (pc = "denoise") => output = <<>>
    /\ (pc = "denoise" /\ step = 0) => indices = [i \in 1..args.n |-> i - 1]
    /\ (pc = "done")
       => (step = Len(loc.timesteps) /\ output # <<>>)

\* The loops never interleave: the call moves on from a stage and never
\* back, and a loop's step counter grows by one.
C15_StagesAdvance ==
    /\ (pc = "inversion") => pc' \in {"inversion", "denoise", "error"}
    /\ (pc = "denoise") => pc' \in {"denoise", "done", "error"}
    /\ (pc = "done") => pc' = "done"
    /\ (pc' = pc /\ pc \in {"inversion", "denoise"}) => step' = step + 1

\* C15 amended: the stages run in the order grid packing, input
\* validation, (optional) inversion loop, main loop, unpacking and
\* restoration; every inversion step completes before the first
\* main-loop step, every main-loop step before unpacking, the loops never
\* interleave, and the main loop starts from the identity table whether
\* or not inversion ran.
C15_PackingThenValidation == [](C15_StageOrder) /\ [][C15_StagesAdvance]_vars

\* The first main-loop step after an inversion loop that ran to its end.
C15_Witness ==
    /\ pc = "denoise" /\ step = 1 /\ args.inv = "prompt"
    /\ calls.inverse_step = Len(loc.inversion_timesteps)
    /\ calls.inverse_step >= 1
    /\ calls.scheduler_step = 1
    /\ args.shuf /\ args.n = 8 /\ args.k = 2

\* --------------------------------------------------------------- C16
\* C16 as stated, its second part: without inversion_prompt and
\* inversion_prompt_embeds the inverse scheduler is not used.
C16_InverseSchedulerUnused ==
    (args.inv = "none")
    => /\ calls.inverse_set_timesteps = 0
       /\ calls.inverse_scale_model_input = 0
       /\ calls.inverse_step = 0

\* C16 amended: without inversion_prompt and inversion_prompt_embeds no
\* inversion step runs and the inverse scheduler gets no
\* scale_model_input and no step call (its set_timesteps is called once
\* while the call prepares); the main loop starts from the latents the
\* autoencoder encodes from the packed grids, with noise added: every
\* latent grid is a packed grid and every packed grid is among them,
\* and with one prompt the latents are the packed grids in order.
C16_NoInversionStage ==
    (args.inv = "none")
    => /\ pc # "inversion"
       /\ last.loop # "inversion"
       /\ calls.inverse_scale_model_input = 0
       /\ calls.inverse_step = 0
       /\ calls.inverse_set_timesteps = (IF pc \in {"prepared", "denoise", "done"}
                                         THEN 1 ELSE calls.set_timesteps)
       /\ (pc = "denoise" /\ step = 0)
          => /\ {latents[i] : i \in 1..Len(latents)}
                    = {grids[g] : g \in 1..Len(grids)}
             /\ (batch_size(args) = 1) => latents = grids
             /\ calls.vae_encode = (Len(grids) + args.vbs - 1) \div args.vbs
             /\ calls.add_noise = calls.vae_encode
             /\ calls.vae_decode = 0
             /\ calls.unet = 0

\* The start of the main loop of a call without inversion, two grids
\* encoded.
C16_Witness ==
    /\ args.inv = "none" /\ pc = "denoise" /\ step = 0
    /\ args.k = 2 /\ args.n = 8
    /\ latents = grids /\ Len(latents) = 2
    /\ calls.vae_encode = 1 /\ calls.inverse_set_timesteps = 1
    /\ calls.inverse_step = 0

\* --------------------------------------------------------------- C17
\* C17: the inversion loop runs without shuffling whatever use_shuffling
\* is: it goes through the inverse scheduler's timesteps in order, all
\* its scale_model_input and step calls go to the inverse scheduler and
\* none to the main scheduler, and it draws no permutation.
C17_InversionLoop ==
    /\ (pc = "inversion")
       => /\ args.inv # "none"
          /\ calls.randperm = 0 /\ calls.shuffle = 0
          /\ calls.scale_model_input = 0 /\ calls.scheduler_step = 0
          /\ calls.inverse_step = step
          /\ calls.inverse_scale_model_input >= step
          /\ indices = <<>>
          /\ step <= Len(loc.inversion_timesteps)
          /\ (step >= 1)
             => /\ last.loop = "inversion"
                /\ ~last.shuffled
                /\ last.scheduler = "inverse_scheduler"
                /\ last.i = step - 1
                /\ last.t = loc.inversion_timesteps[step]
                /\ \A e \in 1..Len(last.events) :
                     last.events[e] \notin {"randperm", "_shuffle"}
    /\ (args.inv # "none" /\ pc = "denoise" /\ step = 0)
       => /\ calls.inverse_step = Len(loc.inversion_timesteps)
          /\ calls.scheduler_step = 0 /\ calls.randperm = 0

\* The second inversion step of a call that asks for shuffling.
C17_Witness ==
    /\ pc = "inversion" /\ step = 2 /\ args.shuf
    /\ Len(loc.inversion_timesteps) = 2
    /\ last.t = loc.inversion_timesteps[2]
    /\ calls.inverse_step = 2 /\ calls.scheduler_step = 0

\* --------------------------------------------------------------- C18
\* C18: image_split of an image whose width is not divisible by cols or
\* whose height is not divisible by rows raises ValueError and returns
\* no tiles; otherwise it returns rows * cols tiles, each of
\* width / cols by height / rows pixels, row by row.
C18_SplitDivisible ==
    LET divisible == args.w % args.cols = 0 /\ args.h % args.rows = 0
        tw == args.w \div args.cols
        th == args.h \div args.rows
    IN  /\ (pc = "error")
           => (~divisible /\ output = <<>> /\ err = "ValueError: not divisible")
        /\ (pc = "split_done")
           => /\ divisible
              /\ Len(output.tiles) = args.rows * args.cols
              /\ \A r \in 0..(args.rows - 1) : \A c \in 0..(args.cols - 1) :
                   output.tiles[r * args.cols + c + 1] =
                       [y \in 1..th |-> [x \in 1..tw |->
                           <<1, r * th + y, c * tw + x>>]]

\* A 4 x 3 image cut into 2 rows: the height does not divide.
C18_Witness ==
    /\ pc = "error" /\ err = "ValueError: not divisible"
    /\ args.w = 4 /\ args.h = 3 /\ args.rows = 2 /\ args.cols = 2
    /\ output = <<>>

\* --------------------------------------------------------------- C19
\* C19 as stated, its last part: with shuffling every permutation of the
\* main loop is drawn from the generator the caller passed, never from
\* the global random state.
C19_NeverGlobalState ==
    (args.shuf /\ last.loop = "main")
    => (last.randperm # <<>> /\ last.randperm[1].source = "generator")

\* C19 amended: with shuffling every main-loop step draws exactly one
\* permutation, before its denoiser call, of length num_frames over
\* [0, num_frames), one for all grids; it is drawn from the caller's
\* generator, which every step advances by one draw, when the caller
\* passed one, and from the global random state when generator is None.
C19_OneDrawPerStep ==
    (args.shuf /\ pc \in {"denoise", "done"})
    => /\ calls.randperm = step /\ calls.shuffle = step
       /\ args.generator # <<>>
          => /\ generator.seed = args.generator[1]
             /\ generator.draws = calls.vae_encode + calls.add_noise + step
       /\ args.generator = <<>> => generator = <<>>
       /\ (last.loop = "main")
          => LET ev == last.events
                 at(name) == {e \in 1..Len(ev) : ev[e] = name}
             IN  /\ Cardinality(at("randperm")) = 1
                 /\ \A e \in at("randperm") : \A d \in at("unet") : e < d
                 /\ Len(last.randperm) = 1
                 /\ last.randperm[1].n = args.n
                 /\ last.randperm[1].source =
                        (IF args.generator = <<>> THEN "global" ELSE "generator")
                 /\ Len(indices) = args.n
                 /\ {indices[i] : i \in 1..args.n} = 0..(args.n - 1)

\* The second step of a call whose generator is None, on four frames in
\* four grids of one.
C19_Witness ==
    /\ args.shuf /\ pc = "denoise" /\ step = 2
    /\ args.generator = <<>> /\ args.n = 4 /\ args.k = 1
    /\ last.randperm = <<[n |-> 4, source |-> "global"]>>
    /\ calls.randperm = 2
    /\ indices[4] = 0

\* --------------------------------------------------------------- C20
\* The keep weight of ControlNet j at step i (0-based) of the inversion
\* loop.
InversionKeepOf(i, j) ==
    IF args.multi THEN loc.inversion_controlnet_keep[i + 1][j]
    ELSE loc.inversion_controlnet_keep[i + 1]

\* C20: the inversion keep weight of ControlNet j at inversion step i of
\* N_inv is 0 if i / N_inv < start_j or (i + 1) / N_inv > end_j and 1
\* otherwise, both bounds measured against the inversion loop's own
\* number of steps, whatever the number of timesteps of the main loop.
C20_InversionKeepWeights ==
    (pc \in {"prepared", "inversion", "denoise", "done"})
    => LET inv_total == Len(loc.inversion_timesteps)
           nets == IF args.multi THEN args.nets ELSE 1
       IN  /\ Len(loc.inversion_controlnet_keep) = inv_total
           /\ \A i \in 0..(inv_total - 1) : \A j \in 1..nets :
                InversionKeepOf(i, j) =
                    ExpectedKeep(i, inv_total, loc.start[j], loc.end[j])

\* --------------------------------------------------------------- C21
\* C21: with several ControlNets a controlnet_conditioning_scale list
\* whose length is not the number of ControlNets is rejected by
\* check_inputs with a ValueError before any collaborator is invoked, so
\* that in every loop step every ControlNet has its own base scale times
\* its own keep weight.
C21_ScaleLengthRejected ==
    /\ (/\ args.multi /\ args.cscale.kind = "list"
        /\ Len(args.cscale.v) # args.nets)
       => /\ pc \in {"start", "packed", "error"}
          /\ calls = NoCalls /\ last = NoStep
    /\ (args.multi /\ last # NoStep)
       => LET keep == IF last.loop = "main"
                      THEN loc.controlnet_keep[last.i + 1]
                      ELSE loc.inversion_controlnet_keep[last.i + 1]
          IN  /\ Len(last.cond_scale) = args.nets
              /\ \A j \in 1..args.nets :
                   REq(last.cond_scale[j],
                       RMul(loc.cscale.v[j], RInt(keep[j])))

\* --------------------------------------------------------------- C22
\* A blank cell of the size of a frame.
BlankCell == [y \in 1..args.h |-> [x \in 1..args.w |-> Blank]]

\* C22: packing N >= 1 frames with grid size k never raises the 'exceeds
\* grid size' error and makes exactly ceil(N / k^2) grids, all of k x k
\* cells; grid g holds the frames g * k^2 .. g * k^2 + k^2 - 1 that
\* exist, in input order in its leading cells counted row by row, and its
\* other cells are blank.
C22_PackingChunks ==
    /\ err # "ValueError: exceeds grid size"
    /\ (args.n >= 1) => (pc # "error" \/ err # "IndexError: video[0]")
    /\ (/\ pc \notin {"start", "split", "split_done"} /\ GridsOfPacking
        /\ args.n >= 1)
       => LET per == args.k * args.k
              count == (args.n + per - 1) \div per
          IN  /\ Len(grids) = count
              /\ \A g \in 1..count :
                   /\ Width(grids[g]) = args.k * args.w
                   /\ Height(grids[g]) = args.k * args.h
              /\ \A s \in 0..(count * per - 1) :
                   SlotAt(grids, s, args.k) =
                       (IF s < args.n THEN Orig(s) ELSE BlankCell)
              /\ \A j \in 1..Len(control_grids) :
                   Len(control_grids[j]) = (args.cls[j] + per - 1) \div per

\* Five frames packed into two 2 x 2 grids: the second grid holds frame 4
\* in its first cell and three blank cells.
C22_Witness ==
    /\ pc = "packed" /\ args.n = 5 /\ args.k = 2
    /\ Len(grids) = 2
    /\ SlotAt(grids, 4, 2) = Orig(4)
    /\ SlotAt(grids, 5, 2) = BlankCell
    /\ SlotAt(grids, 7, 2) = BlankCell

\* --------------------------------------------------------------- C23
\* The slots a batch of grids has.
Slots(t) == 0..(Len(t) * args.k * args.k - 1)

\* When N is not a multiple of grid_size^2, after every step of the main
\* loop with shuffling the table names N different slots below N, frame
\* i is in slot indices[i] of the latents, and the call returns exactly
\* the N frames in original order, no blank cell among them.
C23_FramesBelowN ==
    (/\ args.shuf /\ args.n % (args.k * args.k) # 0
     /\ pc \in {"denoise", "done"} /\ step >= 1)
    => /\ Len(indices) = args.n
       /\ {indices[i] : i \in 1..args.n} = 0..(args.n - 1)
       /\ \A i \in 0..(args.n - 1) :
            SlotAt(latents, indices[i + 1], args.k) = Orig(i)
       /\ (pc = "done" /\ args.out = "pil")
          => /\ Len(output.frames) = args.n
             /\ \A i \in 0..(args.n - 1) : output.frames[i + 1] = Orig(i)

\* A shuffle step leaves every slot >= N of the latents as it was.
C23_StepKeepsPadding ==
    (/\ args.shuf /\ args.n % (args.k * args.k) # 0
     /\ pc = "denoise" /\ step' = step + 1)
    => /\ Len(latents') = Len(latents)
       /\ \A s \in Slots(latents) :
            (s >= args.n) => SlotAt(latents', s, args.k) = SlotAt(latents, s, args.k)

\* C23: when N is not a multiple of grid_size^2 no shuffle step reads or
\* writes a slot >= N, every frame is in a slot below N after every
\* step, and the call returns exactly the N frames in original order
\* with no padding cell among them.
C23_PaddingUntouched == [](C23_FramesBelowN) /\ [][C23_StepKeepsPadding]_vars

\* --------------------------------------------------------------- C24
\* The number min(int(num_inference_steps * strength),
\* num_inference_steps) of the claim, the product taken in floating
\* point, with the strength 1 in inversion mode.
TimestepCount ==
    LET strength == IF args.inv # "none" THEN <<1, 1>> ELSE args.strength
        int == IntOfProduct(args.steps, strength)
    IN  IF int < args.steps THEN int ELSE args.steps

\* C24 as stated: the timesteps of the main loop are the last
\* min(int(num_inference_steps * strength), num_inference_steps)
\* * scheduler.order entries of the scheduler's timesteps, in the
\* scheduler's order; in inversion mode the strength is 1 whatever the
\* caller passed.
C24_LastEntries ==
    (pc \in {"prepared", "inversion", "denoise", "done"})
    => LET all == SchedulerTimesteps(args.steps, args.order,
                                     args.extra_timesteps)
           count == TimestepCount * args.order
       IN  /\ Len(loc.timesteps) = count
           /\ \A i \in 1..count :
                loc.timesteps[i] = all[Len(all) - count + i]

\* C24: the timesteps of the main loop are scheduler.timesteps without
\* its first t_start * scheduler.order entries, in the scheduler's order,
\* where t_start is num_inference_steps
\* - min(int(num_inference_steps * strength), num_inference_steps) and
\* the product is taken in floating point; they are the last
\* min(...) * scheduler.order entries when the scheduler has
\* num_inference_steps * scheduler.order timesteps; iteration i of the
\* main loop is at entry i of them; in inversion mode the strength is 1
\* whatever the caller passed, and the main loop runs over all of the
\* scheduler's timesteps.
C24_MainLoopTimesteps ==
    (pc \in {"prepared", "inversion", "denoise", "done"})
    => LET total == args.steps
           strength == IF args.inv # "none" THEN <<1, 1>> ELSE args.strength
           all == SchedulerTimesteps(total, args.order, args.extra_timesteps)
           skipped == (total - TimestepCount) * args.order
           count == IF Len(all) > skipped THEN Len(all) - skipped ELSE 0
       IN  /\ REq(loc.strength, strength)
           /\ Len(loc.timesteps) = count
           /\ \A i \in 1..count : loc.timesteps[i] = all[skipped + i]
           /\ (Len(all) = total * args.order)
              => /\ count = TimestepCount * args.order
                 /\ \A i \in 1..count :
                      loc.timesteps[i] = all[Len(all) - count + i]
           /\ fields._num_timesteps = <<count>>
           /\ (args.inv # "none") => loc.timesteps = all
           /\ (last # NoStep /\ last.loop = "main")
              => /\ last.i = step - 1
                 /\ last.t = loc.timesteps[last.i + 1]
           /\ (pc = "done") => (step = count /\ calls.scheduler_step = count)

\* Three inference steps at strength 0.8: the main loop has run over the
\* last two timesteps.
C24_Witness ==
    /\ pc = "done" /\ args.steps = 3 /\ args.strength = <<4, 5>>
    /\ args.inv = "none" /\ args.order = 1 /\ args.extra_timesteps = 0
    /\ loc.timesteps = <<2, 1>> /\ step = 2 /\ last.t = 1

\* The same on a scheduler of order 2 with six timesteps: the main loop
\* has run over the last four.
C24_WitnessOrder ==
    /\ pc = "done" /\ args.steps = 3 /\ args.strength = <<4, 5>>
    /\ args.inv = "none" /\ args.order = 2 /\ args.extra_timesteps = 0
    /\ loc.timesteps = <<4, 3, 2, 1>> /\ step = 4 /\ last.t = 1

\* The same on a scheduler of order 2 with five timesteps: the main
\* loop has run over the last three.
C24_WitnessShort ==
    /\ pc = "done" /\ args.steps = 3 /\ args.strength = <<4, 5>>
    /\ args.inv = "none" /\ args.order = 2 /\ args.extra_timesteps = -1
    /\ loc.timesteps = <<3, 2, 1>> /\ step = 3 /\ last.t = 1

\* Twenty-two inference steps at strength 15/22: the product is 14 in
\* floating point, and the main loop has run over the last fourteen
\* timesteps.
C24_WitnessRounded ==
    /\ pc = "done" /\ args.steps = 22 /\ args.strength = <<15, 22>>
    /\ args.inv = "none"
    /\ Len(loc.timesteps) = 14 /\ loc.timesteps[1] = 14 /\ step = 14

\* Inversion requested with strength 0.5: the main loop has run over all
\* three timesteps.
C24_WitnessInversion ==
    /\ pc = "done" /\ args.steps = 3 /\ args.strength = <<1, 2>>
    /\ args.inv = "prompt" /\ args.order = 1 /\ args.extra_timesteps = 0
    /\ loc.timesteps = <<3, 2, 1>> /\ step = 3

\* --------------------------------------------------------------- C25
\* C25: once the starting latents are prepared, scheduler.add_noise has
\* been called, once for every batch of grids that was encoded and with
\* the first timestep of the main loop (one copy of it for every
\* prompt), if and only if the call is not in
\* inversion mode; in inversion mode it is never called, neither before
\* the inversion loop nor when the inverted frames are encoded again.
C25_NoiseUnlessInversion ==
    /\ (args.inv # "none") => calls.add_noise = 0
    /\ (pc \in {"start", "packed", "checked", "encoded", "prepared"})
       => calls.add_noise = 0
    /\ (args.inv = "none" /\ pc \in {"inversion", "denoise", "done"})
       => /\ calls.add_noise = Batches(Len(grids), args.vbs)
          /\ calls.add_noise >= 1
          /\ calls.add_noise = calls.vae_encode
          /\ loc.latent_timestep =
                 (IF loc.timesteps = <<>> THEN <<>>
                  ELSE [e \in 1..batch_size(args) |-> loc.timesteps[1]])
    /\ (args.inv = "none") => pc # "inversion"

\* A call without inversion whose three grids were encoded, each in a
\* batch of its own, with noise.
C25_Witness ==
    /\ args.inv = "none" /\ pc = "denoise" /\ step = 0
    /\ calls.add_noise >= 1 /\ calls.vae_encode = calls.add_noise
    /\ loc.latent_timestep = <<loc.timesteps[1]>>

\* A call with inversion on the frames after the inverted frames were
\* encoded again: two encoder passes and no noise.
C25_WitnessInversion ==
    /\ args.inv = "prompt" /\ ~args.ongrid /\ pc = "denoise"
    /\ calls.vae_encode = 2 /\ calls.vae_decode = 1 /\ calls.add_noise = 0

\* --------------------------------------------------------------- C26
\* C26: every scheduler step call, in the inversion loop and in the main
\* loop, is passed only those of the extra keyword arguments eta and
\* generator that the step function of the scheduler being stepped
\* accepts; no step call fails on a keyword it does not accept.
C26_StepKwargsAccepted ==
    /\ err # "TypeError: step() got an unexpected keyword argument"
    /\ (last # NoStep)
       => last.step_kwargs \subseteq StepAccepts(last.scheduler)

\* --------------------------------------------------------------- C27
\* What a call with output_type "latent" has returned.
C27_LatentFrames ==
    (pc = "done" /\ args.out = "latent")
    => /\ DOMAIN output = {"frames"}
       /\ output.frames = latents
       /\ Len(output.frames) >= Len(grids)
       /\ \A g \in 1..Len(output.frames) :
            /\ Width(output.frames[g]) = args.k * args.w
            /\ Height(output.frames[g]) = args.k * args.h
       /\ (batch_size(args) = 1)
          => /\ Len(output.frames) = Len(grids)
             /\ \A i \in 0..(args.n - 1) :
                  SlotAt(output.frames, indices[i + 1], args.k) = Orig(i)
       /\ calls.vae_decode = 0
       /\ step = Len(loc.timesteps)

\* The step that follows the main loop of a call with output_type
\* "latent": it returns, and calls no collaborator.
C27_ReturnsAtLoopEnd ==
    (pc = "denoise" /\ step = Len(loc.timesteps) /\ args.out = "latent")
    => (pc' = "done" /\ calls' = calls /\ latents' = latents /\ indices' = indices)

\* C27: with output_type "latent" the call returns, as soon as the main
\* loop is over, the final latent grids of the main loop as they are, of
\* the size of the packed grids (with one prompt as many as the packed
\* grids, frame i in the slot the final index table gives it), no decoder
\* call made, and nothing but the frames in the output (the table is not
\* returned).
C27_LatentOutput == [](C27_LatentFrames) /\ [][C27_ReturnsAtLoopEnd]_vars

\* Latent output of a shuffled call on 2 x 2 grids: frame 0 is returned
\* in slot 3, where the last shuffle put it.
C27_Witness ==
    /\ pc = "done" /\ args.out = "latent" /\ args.shuf /\ args.k = 2
    /\ args.n >= 4 /\ indices[1] = 3
    /\ SlotAt(output.frames, 3, 2) = Orig(0)
    /\ SlotAt(output.frames, 0, 2) # Orig(0)
    /\ calls.vae_decode = 0

\* --------------------------------------------------------------- C28
\* C28: in the main loop with shuffling, before and after every step, the
\* latents have G grids, G the number of packed grids, and every control
\* tensor has 2G grids when classifier-free guidance is on and guess_mode
\* off and G grids otherwise; the ControlNet of every step is given a
\* control batch of that size.
C28_BatchSizes ==
    (args.shuf /\ pc \in {"denoise", "done"})
    => LET G == Len(grids)
           per == args.k * args.k
           factor == IF GuidanceOn /\ ~args.guess THEN 2 ELSE 1
       IN  /\ G = (args.n + per - 1) \div per
           /\ Len(latents) = G
           /\ \A t \in ControlTensors : Len(t) = factor * G
           /\ (last # NoStep /\ last.loop = "main")
              => /\ last.latent_batch = (IF GuidanceOn THEN 2 ELSE 1) * G
                 /\ IF args.multi
                    THEN \A j \in 1..Len(last.controlnet_cond) :
                             Len(last.controlnet_cond[j]) = factor * G
                    ELSE Len(last.controlnet_cond) = factor * G

\* --------------------------------------------------------------- C29
\* The frames of a batch of grids as _shuffle_helper numbers them.
GridFrames(t) == Flatten([g \in 1..Len(t) |-> UnTile(t[g], args.k)])

\* C29: for the packed grids and for the latent grids of every stage,
\* slot s of _shuffle_helper (lines 944-952) is cell row (s % k^2) \div k,
\* column s % k of grid s \div k^2, which is tile s of _grids_to_frames
\* and, for the packed grids, the cell where image_grid put frame s;
\* putting the slots back into grids with no frame moved gives the grids
\* unchanged; so the slot s the table names is the same cell of the
\* latents for _shuffle_helper and for unpacking, and the frame returned
\* for an entry s of the table is the one unpacking finds in position s.
C29_SameNumbering ==
    /\ (pc \notin {"start", "error", "split", "split_done"} /\ GridsOfPacking)
       => \A slots \in {GridFrames(grids)} :
          \A tiles \in {_grids_to_frames(grids, args.k)} :
          /\ Len(slots) = Len(grids) * args.k * args.k
          /\ slots = tiles
          /\ \A s \in Slots(grids) :
               /\ slots[s + 1] = SlotAt(grids, s, args.k)
               /\ (s < args.n) => slots[s + 1] = Orig(s)
          /\ ReTile(slots, args.k, Len(grids) * args.k * args.k) = grids
    /\ (pc \in {"denoise", "done"})
       => \A slots \in {GridFrames(latents)} :
          \A tiles \in {_grids_to_frames(latents, args.k)} :
          /\ slots = tiles
          /\ \A s \in Slots(latents) :
               slots[s + 1] = SlotAt(latents, s, args.k)
          /\ ReTile(slots, args.k, Len(latents) * args.k * args.k) = latents
          /\ \A i \in 0..(args.n - 1) :
               /\ slots[indices[i + 1] + 1]
                      = SlotAt(latents, indices[i + 1], args.k)
               /\ (pc = "done" /\ args.out = "pil")
                  => output.frames[i + 1] = tiles[indices[i + 1] + 1]

\* 2 x 2 grids of frames two pixels wide and one high, after a shuffle
\* that moved frame 0 to slot 2, the first cell of the second row.
C29_Witness ==
    /\ pc = "denoise" /\ args.shuf /\ args.k = 2 /\ args.w = 2 /\ args.h = 1
    /\ step >= 1 /\ indices[1] = 2
    /\ GridFrames(latents)[3] = Orig(0)
    /\ latents[1][2][1] = <<1, 1, 1>>
    /\ _grids_to_frames(latents, 2)[3] = Orig(0)

\* --------------------------------------------------------------- C30
\* The errors of check_inputs.
ValidationErrors ==
    {"ValueError: video and control_video length",
     "ValueError: callback_steps", "ValueError: inversion_callback_steps",
     "ValueError: callback_on_step_end_tensor_inputs",
     "ValueError: inversion_callback_on_step_end_tensor_inputs",
     "ValueError: prompt and prompt_embeds",
     "ValueError: neither prompt nor prompt_embeds",
     "ValueError: prompt type",
     "ValueError: negative_prompt and negative_prompt_embeds",
     "ValueError: embeds shape",
     "TypeError: controlnet_conditioning_scale",
     "ValueError: nested controlnet_conditioning_scale",
     "ValueError: control_guidance lengths",
     "ValueError: control_guidance count",
     "ValueError: start >= end", "ValueError: start < 0", "ValueError: end > 1"}

\* Arguments that validation must refuse: callback steps that are not
\* positive, tensor inputs that are not allowed, prompt and embeddings
\* both or neither, a prompt of another type, both negative prompts,
\* embeddings of different shapes, a conditioning scale of the wrong kind.
InvalidArguments ==
    \/ args.callback_steps # <<>> /\ args.callback_steps[1] <= 0
    \/ args.inversion_callback_steps # <<>> /\ args.inversion_callback_steps[1] <= 0
    \/ ~args.tensor_inputs_ok
    \/ ~args.inversion_tensor_inputs_ok
    \/ args.prompt # "none" /\ args.prompt_embeds
    \/ args.prompt = "none" /\ ~args.prompt_embeds
    \/ args.prompt = "other"
    \/ args.negative = "both"
    \/ args.prompt_embeds /\ args.negative = "shape"
    \/ ~args.multi /\ args.cscale.kind # "float"
    \/ args.multi /\ args.cscale.kind = "list" /\ args.cscale.nested

\* The pipeline object as it was before the call.
ObjectUntouched ==
    /\ fields = [_guidance_scale |-> <<>>, _clip_skip |-> "previous",
                 _cross_attention_kwargs |-> "previous", _num_timesteps |-> <<>>]
    /\ calls.set_timesteps = 0
    /\ calls.inverse_set_timesteps = 0

\* The errors of encode_prompt for a negative prompt.
EncodePromptErrors ==
    {"TypeError: negative_prompt type",
     "ValueError: negative_prompt batch size"}

\* The errors of the packing that precedes check_inputs.
PackingErrors ==
    {"IndexError: control_video[0]", "IndexError: video[0]",
     "ValueError: exceeds grid size"}

\* C30 as stated: a call that ends with an error for its arguments, of
\* check_inputs or of encode_prompt, has written none of the per-call
\* fields _guidance_scale, _clip_skip, _cross_attention_kwargs,
\* _num_timesteps and has called set_timesteps on neither scheduler.
C30_RejectedCallWritesNothing ==
    (pc = "error" /\ err \in ValidationErrors \cup EncodePromptErrors)
    => ObjectUntouched

\* C30: a call that check_inputs rejects, and any call with arguments
\* that check_inputs must refuse, writes none of the per-call fields
\* _guidance_scale, _clip_skip, _cross_attention_kwargs, _num_timesteps
\* and calls set_timesteps on neither scheduler, and such a call never
\* gets past check_inputs; a call that encode_prompt rejects for its
\* negative prompt has written _guidance_scale, _clip_skip and
\* _cross_attention_kwargs, has not written _num_timesteps and has
\* called set_timesteps on neither scheduler.
C30_CheckInputsRejectionWritesNothing ==
    /\ (pc = "error" /\ err \in ValidationErrors) => ObjectUntouched
    /\ InvalidArguments
       => /\ ObjectUntouched
          /\ pc \in {"start", "packed", "error"}
          /\ (pc = "error") => err \in ValidationErrors \cup PackingErrors
    /\ (pc = "error" /\ err \in EncodePromptErrors)
       => /\ fields = [_guidance_scale |-> <<args.gs>>,
                       _clip_skip |-> args.clip_skip,
                       _cross_attention_kwargs |-> args.cross_attention_kwargs,
                       _num_timesteps |-> <<>>]
          /\ calls.set_timesteps = 0
          /\ calls.inverse_set_timesteps = 0

\* A call with callback_steps = 0, rejected, the object untouched.
C30_Witness ==
    /\ pc = "error" /\ err = "ValueError: callback_steps"
    /\ args.callback_steps = <<0>>
    /\ fields._guidance_scale = <<>> /\ fields._clip_skip = "previous"
    /\ calls.set_timesteps = 0 /\ calls.inverse_set_timesteps = 0

\* A list of prompts with a negative prompt string under guidance,
\* rejected by encode_prompt after the fields were written and the
\* prompts went through the text encoder.
C30_WitnessEncodePrompt ==
    /\ pc = "error" /\ err = "TypeError: negative_prompt type"
    /\ args.prompt = "list" /\ args.negative = "prompt"
    /\ args.negative_type = "str"
    /\ fields._guidance_scale = <<args.gs>> /\ fields._clip_skip = "given"
    /\ calls.text_encoder = 1 /\ calls.set_timesteps = 0

====
